---------------------------- MODULE Spec2Model ----------------------------
(***************************************************************************)
(* Model of the INCIQ incident backend: the Store (src/db.ts), the router  *)
(* procedures (src/routers.ts) and the automation engine with its smart    *)
(* report generator (src/automationEngine.ts).                             *)
(*                                                                         *)
(* A Store table is a sequence of rows; a row's id is its index (MySQL     *)
(* auto-increment, no row is ever deleted).  An awaited Store statement is *)
(* one atomic step; a Store write may reject (the driver throws), which is *)
(* the only way a step after report generation can fail.                   *)
(*                                                                         *)
(* Arabic labels of the source are written as transliterated tags:         *)
(*   "isaaf" = ambulance, "satha" = tow truck, "muroor" = traffic,         *)
(*   "shurta" = police, "itfaa" = fire, "hilal_ahmar" = red crescent.      *)
(***************************************************************************)
EXTENDS Integers, Sequences, FiniteSets, TLC

(* ------------------------------ bounds -------------------------------- *)

\* requests the backend accepts in one behaviour: router procedure calls, calls of
\* processIncidentAutomatically by a caller other than the monitor, monitor sweeps
MaxOps == 3

\* Store writes that reject
MaxFaults == 1

\* the incident ids a caller may pass are 1..MaxIds
MaxIds == 2

\* recipients of one reports.send call
MaxRecipients == 2

\* Math.random() is drawn as k / RandomSteps, k in 0..RandomSteps-1
RandomSteps == 60

(* ------------------------------ domains ------------------------------- *)

IncidentTypes == {"injury", "breakdown", "traffic"}

IncidentStatuses == {"pending", "assigned", "in_progress", "resolved", "closed"}

ServiceTypes == {"ambulance", "tow_truck", "traffic_control", "police", "fire"}

RecipientTypes == {"party", "insurance", "najm", "operator"}

Roles == {"user", "operator", "admin"}

\* ids a caller may pass: an id above the number of rows does not resolve
IdSpace == 1..MaxIds

\* the two activations of processIncidentAutomatically that may overlap: one
\* called by monitorIncidentsAutomatically, one called by any other caller
Callers == {"direct", "monitor"}

(* --------------------- smart report (pure functions) ------------------ *)

\* Math.round of the rational num / den (den > 0, num >= 0): floor(x + 1/2)
MathRound(num, den) == (2 * num + den) \div (2 * den)

MathMin(a, b) == IF a < b THEN a ELSE b

MathMax(a, b) == IF a > b THEN a ELSE b

analyses ==
  [injury    |-> [vehicleCount |-> 2, impactPoint |-> "front", estimatedSpeed |-> 85],
   breakdown |-> [vehicleCount |-> 1, impactPoint |-> "engine", estimatedSpeed |-> 0],
   traffic   |-> [vehicleCount |-> 3, impactPoint |-> "light", estimatedSpeed |-> 30]]

\* property names every object literal inherits from Object.prototype (two of them)
InheritedKeys == {"constructor", "toString"}

\* obj[key] for such a name: the inherited member, a truthy value that is neither
\* an analysis entry nor a list
Inherited(key) == [inherited |-> key]

\* analyses[incidentType] || analyses.traffic
simulateVideoAnalysis(incidentType) ==
  IF incidentType \in DOMAIN analyses THEN analyses[incidentType]
  ELSE IF incidentType \in InheritedKeys THEN Inherited(incidentType)
  ELSE analyses["traffic"]


\* variant: the default branch of the switch computes as the traffic branch
basePercentageScaledAsTraffic(incidentType, rnd) ==
  CASE incidentType = "injury"    -> 65 * RandomSteps + rnd * 20
    [] incidentType = "breakdown" -> 0
    [] OTHER                      -> 45 * RandomSteps + rnd * 30

\* basePercentage * RandomSteps, for the draw Math.random() = rnd / RandomSteps
basePercentageScaled(incidentType, rnd) ==
  CASE incidentType = "injury"    -> 65 * RandomSteps + rnd * 20
    [] incidentType = "breakdown" -> 0
    [] incidentType = "traffic"   -> 45 * RandomSteps + rnd * 30
    [] OTHER                      -> 50 * RandomSteps

\* videoAnalysis.estimatedSpeed > 80: false when the property is undefined
SpeedAbove80(videoAnalysis) ==
  /\ "estimatedSpeed" \in DOMAIN videoAnalysis
  /\ videoAnalysis.estimatedSpeed > 80


\* variant: the speed adjustment is taken off instead of added
calculateFaultPercentageSlowed(incidentType, videoAnalysis, rnd) ==
  LET base  == basePercentageScaled(incidentType, rnd)
      speed == IF SpeedAbove80(videoAnalysis)
               THEN base - 10 * RandomSteps ELSE base
  IN  MathMin(100, MathRound(speed, RandomSteps))

calculateFaultPercentage(incidentType, videoAnalysis, rnd) ==
  LET base  == basePercentageScaled(incidentType, rnd)
      speed == IF SpeedAbove80(videoAnalysis)
               THEN base + 10 * RandomSteps ELSE base
  IN  MathMin(100, MathRound(speed, RandomSteps))

recommendedByType ==
  [injury    |-> <<"isaaf", "muroor", "shurta", "hilal_ahmar">>,
   breakdown |-> <<"satha", "muroor">>,
   traffic   |-> <<"muroor">>]

\* services[incidentType] || ["muroor"]
determineServices(incidentType) ==
  IF incidentType \in DOMAIN recommendedByType THEN recommendedByType[incidentType]
  ELSE IF incidentType \in InheritedKeys THEN Inherited(incidentType)
  ELSE <<"muroor">>


\* variant: the response time is shortened without its floor of 2
makeAIDecisionNoFloor(incidentType, faultPercentage, videoAnalysis) ==
  LET typed ==
        CASE incidentType = "injury" ->
               [action |-> "ambulance", priority |-> "immediate", estimatedResponseTime |-> 3]
          [] incidentType = "breakdown" ->
               [action |-> "tow_truck", priority |-> "urgent", estimatedResponseTime |-> 10]
          [] OTHER ->
               [action |-> "traffic_control", priority |-> "normal", estimatedResponseTime |-> 5]
  IN  IF faultPercentage > 80
      THEN [typed EXCEPT !.priority = "immediate",
                         !.estimatedResponseTime = typed.estimatedResponseTime - 2]
      ELSE IF faultPercentage > 60
      THEN [typed EXCEPT !.priority = "urgent"]
      ELSE typed

makeAIDecision(incidentType, faultPercentage, videoAnalysis) ==
  LET typed ==
        CASE incidentType = "injury" ->
               [action |-> "ambulance", priority |-> "immediate", estimatedResponseTime |-> 3]
          [] incidentType = "breakdown" ->
               [action |-> "tow_truck", priority |-> "urgent", estimatedResponseTime |-> 10]
          [] incidentType = "traffic" ->
               [action |-> "traffic_control", priority |-> "normal", estimatedResponseTime |-> 5]
          [] OTHER ->
               [action |-> "traffic_control", priority |-> "normal", estimatedResponseTime |-> 5]
  IN  IF faultPercentage > 80
      THEN [typed EXCEPT !.priority = "immediate",
                         !.estimatedResponseTime = MathMax(2, typed.estimatedResponseTime - 2)]
      ELSE IF faultPercentage > 60
      THEN [typed EXCEPT !.priority = "urgent"]
      ELSE typed

determineSeverity(incidentType, faultPercentage) ==
  IF incidentType = "injury"
  THEN (IF faultPercentage > 80 THEN "critical" ELSE "high")
  ELSE IF incidentType = "breakdown" THEN "low"
  ELSE (IF faultPercentage > 70 THEN "high" ELSE "medium")

\* the report generateSmartReport returns for an incident row and a random draw
SmartReport(incidentId, incidentData, rnd) ==
  LET videoAnalysis   == simulateVideoAnalysis(incidentData.incidentType)
      faultPercentage == calculateFaultPercentage(incidentData.incidentType, videoAnalysis, rnd)
  IN  [incidentId          |-> incidentId,
       incidentType        |-> incidentData.incidentType,
       severity            |-> determineSeverity(incidentData.incidentType, faultPercentage),
       faultPercentage     |-> faultPercentage,
       recommendedServices |-> determineServices(incidentData.incidentType),
       analysisTime        |-> 3000,
       videoAnalysis       |-> videoAnalysis,
       aiDecision          |-> makeAIDecision(incidentData.incidentType, faultPercentage,
                                              videoAnalysis)]

(* ------------------------- service routing helpers -------------------- *)

serviceMapping ==
  [ambulance       |-> "isaaf",
   tow_truck       |-> "satha",
   traffic_control |-> "muroor",
   police          |-> "shurta",
   fire            |-> "itfaa"]

\* Object.keys(serviceMapping).find(key => serviceMapping[key] === service);
\* "undefined" when no key carries the label
serviceTypeOf(service) ==
  LET keys == {k \in DOMAIN serviceMapping : serviceMapping[k] = service}
  IN  IF keys = {} THEN "undefined" ELSE CHOOSE k \in keys : TRUE

(* -------------------------------- state ------------------------------ *)

VARIABLES
  db,               \* getDb(): "connected", or "null" when DATABASE_URL is unset
  incidents,        \* table incidents: row i is the incident with id i
  services,         \* table services
  incidentHistory,  \* table incidentHistory
  incidentParties,  \* table incidentParties
  reportSends,      \* table reportSends
  users,            \* table users
  incidentMedia,    \* table incidentMedia
  statistics,       \* table statistics
  run,              \* the activations of processIncidentAutomatically, per caller
  mon,              \* the activation of monitorIncidentsAutomatically
  response,         \* what the last router procedure answered
  ops,              \* requests accepted so far
  faults            \* rejected Store writes so far

tables == <<incidents, services, incidentHistory, incidentParties, reportSends>>

\* every table of the Store
store == <<incidents, services, incidentHistory, incidentParties, reportSends,
           users, incidentMedia, statistics>>

vars == <<db, incidents, services, incidentHistory, incidentParties, reportSends,
          users, incidentMedia, statistics, run, mon, response, ops, faults>>

\* the fields of a SmartReportData that later steps of the engine use to write
NoReport == [action |-> "none", recommendedServices |-> <<>>]

\* created: the service types this activation inserted, in order
\* histBefore: the number of history rows of the incident when it started
IdleRun ==
  [pc |-> "idle", incidentId |-> 0, report |-> NoReport, recIdx |-> 0,
   created |-> <<>>, error |-> "", histBefore |-> 0]

IdleMon == [pc |-> "idle", pending |-> <<>>, idx |-> 0, invoked |-> <<>>, errors |-> <<>>]

\* proc and input: the procedure called and its input; request: the number of the
\* request among those accepted; error: "" when it answered; value: the id or
\* count it answered
NoResponse ==
  [proc |-> "", input |-> [none |-> TRUE], request |-> 0, error |-> "", value |-> 0]

\* the answer of the call being served, numbered among the accepted requests
Answer(proc, input, error, value) ==
  response' = [proc |-> proc, input |-> input, request |-> ops + 1,
               error |-> error, value |-> value]

Init ==
  /\ db = "connected"
  /\ incidents = <<>>
  /\ services = <<>>
  /\ incidentHistory = <<>>
  /\ incidentParties = <<>>
  /\ reportSends = <<>>
  /\ users = <<>>
  /\ incidentMedia = <<>>
  /\ statistics = <<>>
  /\ run = [r \in Callers |-> IdleRun]
  /\ mon = IdleMon
  /\ response = NoResponse
  /\ ops = 0
  /\ faults = 0

(* ---------------------------- Store (db.ts) --------------------------- *)


\* variant: the read falls back to a default row when the id does not resolve
selectIncidentOrDefault(incidentId) ==
  IF incidentId \in 1..Len(incidents) THEN <<incidents[incidentId]>>
  ELSE <<[incidentType |-> "traffic", status |-> "pending"]>>

\* select().from(incidents).where(eq(incidents.id, incidentId)).limit(1)
selectIncident(incidentId) ==
  IF incidentId \in 1..Len(incidents) THEN <<incidents[incidentId]>> ELSE <<>>


\* variant: the update without its where clause
setIncidentStatusAll(incidentId, status) ==
  [i \in 1..Len(incidents) |-> [incidents[i] EXCEPT !.status = status]]

\* update(incidents).set({status}).where(eq(incidents.id, incidentId)):
\* no row is touched when the id does not resolve
setIncidentStatus(incidentId, status) ==
  [i \in 1..Len(incidents) |->
     IF i = incidentId THEN [incidents[i] EXCEPT !.status = status] ELSE incidents[i]]

\* createIncident's row: every incident starts pending
newIncident(incidentType) == [incidentType |-> incidentType, status |-> "pending"]


\* variant: the insert is skipped when the incident already has a row of the type
insertServiceOnce(incidentId, serviceType) ==
  IF \E i \in 1..Len(services) :
       services[i].incidentId = incidentId /\ services[i].serviceType = serviceType
  THEN services
  ELSE Append(services, [incidentId |-> incidentId, serviceType |-> serviceType,
                         status |-> "pending"])

\* insert(services).values({incidentId, serviceType, status: "pending"})
insertService(incidentId, serviceType) ==
  Append(services, [incidentId |-> incidentId, serviceType |-> serviceType,
                    status |-> "pending"])

\* addIncidentHistory's insert
addIncidentHistory(incidentId, action, details) ==
  Append(incidentHistory, [incidentId |-> incidentId, action |-> action, details |-> details])

\* addIncidentParty's insert (faultPercentage is null until computed)
addIncidentParty(incidentId) ==
  Append(incidentParties, [incidentId |-> incidentId, faultPercentage |-> "null"])

\* updatePartyFaultPercentage's update: no row is touched when the id does not
\* resolve
setFaultPercentage(partyId, faultPercentage) ==
  [i \in 1..Len(incidentParties) |->
     IF i = partyId THEN [incidentParties[i] EXCEPT !.faultPercentage = faultPercentage]
     ELSE incidentParties[i]]

\* addIncidentMedia's insert: isSimulated ?? true
addIncidentMedia(incidentId, mediaType, isSimulated) ==
  Append(incidentMedia,
         [incidentId |-> incidentId, mediaType |-> mediaType,
          isSimulated |-> IF isSimulated = "undefined" THEN "true" ELSE isSimulated])

\* createReportSend's row
newReportSend(incidentId, recipientType) ==
  [incidentId |-> incidentId, recipientType |-> recipientType, status |-> "pending",
   sentAt |-> "null", readAt |-> "null", failureReason |-> "null"]

HistoryOf(incidentId) == SelectSeq(incidentHistory, LAMBDA h : h.incidentId = incidentId)

ServicesOf(incidentId) == SelectSeq(services, LAMBDA s : s.incidentId = incidentId)

PartiesOf(incidentId) == SelectSeq(incidentParties, LAMBDA p : p.incidentId = incidentId)

ReportSendsOf(incidentId) == SelectSeq(reportSends, LAMBDA s : s.incidentId = incidentId)

(* ------------------ automation engine: one activation ----------------- *)


\* variant: the status update awaited before the routing
ProcessStepsStatusFirst ==
  <<"generateSmartReport", "updateIncidentStatus", "routeServicesAutomatically",
    "sendAlertsToParties", "sendSmartReportToParties">>

\* the awaited steps of processIncidentAutomatically's try block, in order
ProcessSteps ==
  <<"generateSmartReport", "routeServicesAutomatically", "sendAlertsToParties",
    "updateIncidentStatus", "sendSmartReportToParties">>

StepIndex(step) == CHOOSE i \in 1..Len(ProcessSteps) : ProcessSteps[i] = step

\* where control goes when a step returns: the next step, or the function returns
StepAfter(step) ==
  IF StepIndex(step) < Len(ProcessSteps) THEN ProcessSteps[StepIndex(step) + 1]
  ELSE "returned"

Finished(r) == run[r].pc \in {"returned", "threw"}

Free(r) == run[r].pc = "idle" \/ Finished(r)

\* a call processIncidentAutomatically(incidentId): getDb() is checked before the try
NewRun(incidentId) ==
  IF db = "null"
  THEN [IdleRun EXCEPT !.pc = "threw", !.incidentId = incidentId,
                       !.error = "Database not available"]
  ELSE [IdleRun EXCEPT !.pc = ProcessSteps[1], !.incidentId = incidentId,
                       !.histBefore = Len(HistoryOf(incidentId))]


\* variant: the catch block deletes the incident's Service rows before it rethrows
ProcessCatchRollback(r, error) ==
  /\ run' = [run EXCEPT ![r].pc = "threw", ![r].error = error]
  /\ services' = SelectSeq(services, LAMBDA s : s.incidentId # run[r].incidentId)
  /\ UNCHANGED <<incidents, incidentHistory, incidentParties, reportSends>>

\* the catch block: the error is logged and thrown again; nothing is undone
ProcessCatch(r, error) ==
  /\ run' = [run EXCEPT ![r].pc = "threw", ![r].error = error]
  /\ UNCHANGED tables

\* a Store write of activation r rejects: the statement throws into the catch block
StoreRejects(r) ==
  /\ faults < MaxFaults
  /\ faults' = faults + 1
  /\ ProcessCatch(r, "Store write rejected")

\* the reports generateSmartReport may return for an incident row, reduced to the
\* fields the engine's later steps write from
ReportsFor(incidentId, incidentData) ==
  {[action |-> report.aiDecision.action,
    recommendedServices |-> report.recommendedServices] :
      report \in {SmartReport(incidentId, incidentData, rnd) : rnd \in 0..(RandomSteps - 1)}}

\* step 1: the report; its first statement is the read of the incident
GenerateSmartReport(r) ==
  /\ run[r].pc = "generateSmartReport"
  /\ LET incident == selectIncident(run[r].incidentId)
     IN  IF Len(incident) = 0
         THEN ProcessCatch(r, "Incident not found")
         ELSE /\ \E report \in ReportsFor(run[r].incidentId, incident[1]) :
                   run' = [run EXCEPT ![r].report = report,
                                      ![r].recIdx = 0,
                                      ![r].pc = StepAfter(run[r].pc)]
              /\ UNCHANGED tables
  /\ UNCHANGED <<db, users, incidentMedia, statistics, mon, response, ops, faults>>


\* variant: the loop does not skip the recommended service equal to the primary action
PendingInsertAll(report, pos) ==
  IF pos = 0 /\ report.action # "none"
  THEN [serviceType |-> report.action, next |-> 1]
  ELSE LET recs == report.recommendedServices
           due  == {j \in MathMax(pos, 1)..Len(recs) : serviceTypeOf(recs[j]) # "undefined"}
       IN  IF due = {}
           THEN [serviceType |-> "undefined", next |-> Len(recs) + 1]
           ELSE LET j == CHOOSE k \in due : \A l \in due : k <= l
                IN  [serviceType |-> serviceTypeOf(recs[j]), next |-> j + 1]

\* the next insert routeServicesAutomatically awaits from position pos (0: the
\* primary action is still to route; j >= 1: the loop is at recommendedServices[j]);
\* serviceType "undefined" when nothing is left to insert
PendingInsert(report, pos) ==
  IF pos = 0 /\ report.action # "none"
  THEN [serviceType |-> report.action, next |-> 1]
  ELSE LET recs == report.recommendedServices
           due  == {j \in MathMax(pos, 1)..Len(recs) :
                      /\ serviceTypeOf(recs[j]) # "undefined"
                      /\ serviceTypeOf(recs[j]) # report.action}
       IN  IF due = {}
           THEN [serviceType |-> "undefined", next |-> Len(recs) + 1]
           ELSE LET j == CHOOSE k \in due : \A l \in due : k <= l
                IN  [serviceType |-> serviceTypeOf(recs[j]), next |-> j + 1]

\* step 2: one awaited insert of routeServicesAutomatically, or its return
RouteServicesAutomatically(r) ==
  /\ run[r].pc = "routeServicesAutomatically"
  /\ LET ins == PendingInsert(run[r].report, run[r].recIdx)
     IN  IF ins.serviceType = "undefined"
         THEN /\ run' = [run EXCEPT ![r].pc = StepAfter(run[r].pc)]
              /\ UNCHANGED tables
              /\ UNCHANGED faults
         ELSE \/ /\ services' = insertService(run[r].incidentId, ins.serviceType)
                 /\ run' = [run EXCEPT ![r].recIdx = ins.next,
                                       ![r].created = Append(@, ins.serviceType)]
                 /\ UNCHANGED <<incidents, incidentHistory, incidentParties, reportSends>>
                 /\ UNCHANGED faults
              \/ StoreRejects(r)
  /\ UNCHANGED <<db, users, incidentMedia, statistics, mon, response, ops>>

\* step 3: the alerts are logged only
SendAlertsToParties(r) ==
  /\ run[r].pc = "sendAlertsToParties"
  /\ run' = [run EXCEPT ![r].pc = StepAfter(run[r].pc)]
  /\ UNCHANGED <<db, users, incidentMedia, statistics, mon, response, ops, faults>>
  /\ UNCHANGED tables


\* variant: step 4 also appends a "Status updated" history row, as the router does
UpdateIncidentStatusLogged(r) ==
  /\ run[r].pc = "updateIncidentStatus"
  /\ \/ /\ incidents' = setIncidentStatus(run[r].incidentId, "in_progress")
        /\ incidentHistory' =
             addIncidentHistory(run[r].incidentId, "Status updated", "in_progress")
        /\ run' = [run EXCEPT ![r].pc = StepAfter(run[r].pc)]
        /\ UNCHANGED <<services, incidentParties, reportSends>>
        /\ UNCHANGED faults
     \/ StoreRejects(r)
  /\ UNCHANGED <<db, users, incidentMedia, statistics, mon, response, ops>>

\* step 4: the engine's own updateIncidentStatus(incidentId, "in_progress")
UpdateIncidentStatus(r) ==
  /\ run[r].pc = "updateIncidentStatus"
  /\ \/ /\ incidents' = setIncidentStatus(run[r].incidentId, "in_progress")
        /\ run' = [run EXCEPT ![r].pc = StepAfter(run[r].pc)]
        /\ UNCHANGED <<services, incidentHistory, incidentParties, reportSends>>
        /\ UNCHANGED faults
     \/ StoreRejects(r)
  /\ UNCHANGED <<db, users, incidentMedia, statistics, mon, response, ops>>


\* variant: step 5 creates a pending ReportSend row for each party of the incident
SendSmartReportToPartiesStored(r) ==
  /\ run[r].pc = "sendSmartReportToParties"
  /\ run' = [run EXCEPT ![r].pc = StepAfter(run[r].pc)]
  /\ reportSends' =
       reportSends \o [i \in 1..Len(PartiesOf(run[r].incidentId)) |->
                         newReportSend(run[r].incidentId, "party")]
  /\ UNCHANGED <<incidents, services, incidentHistory, incidentParties>>
  /\ UNCHANGED <<db, users, incidentMedia, statistics, mon, response, ops, faults>>

\* step 5: the report is logged only ("simulated send"); no Store statement
SendSmartReportToParties(r) ==
  /\ run[r].pc = "sendSmartReportToParties"
  /\ run' = [run EXCEPT ![r].pc = StepAfter(run[r].pc)]
  /\ UNCHANGED <<db, users, incidentMedia, statistics, mon, response, ops, faults>>
  /\ UNCHANGED tables

\* processIncidentAutomatically(incidentId) called by any caller but the monitor
ProcessIncidentAutomatically(incidentId) ==
  /\ Free("direct")
  /\ ops < MaxOps
  /\ ops' = ops + 1
  /\ run' = [run EXCEPT !["direct"] = NewRun(incidentId)]
  /\ UNCHANGED <<db, users, incidentMedia, statistics, mon, response, faults>>
  /\ UNCHANGED tables

(* ------------------ automation engine: the monitor sweep -------------- *)

\* select().from(incidents).where(eq(incidents.status, "pending")), in id order
selectPending ==
  LET Ids[n \in 0..Len(incidents)] ==
        IF n = 0 THEN <<>>
        ELSE IF incidents[n].status = "pending" THEN Append(Ids[n - 1], n)
        ELSE Ids[n - 1]
  IN  Ids[Len(incidents)]


\* variant: no try/catch around the item, a throw ends the sweep
MonitorAfterAbort(m, outcome) ==
  IF outcome = "threw"
  THEN [m EXCEPT !.pc = "threw", !.errors = Append(@, m.pending[m.idx])]
  ELSE [m EXCEPT !.idx = @ + 1]

\* the try/catch around one item: a throw is logged, the loop goes on
MonitorAfter(m, outcome) ==
  IF outcome = "threw"
  THEN [m EXCEPT !.errors = Append(@, m.pending[m.idx]), !.idx = @ + 1]
  ELSE [m EXCEPT !.idx = @ + 1]

\* the sweep starts: the pending incidents are loaded and the first is processed
MonitorLoad ==
  /\ mon.pc \in {"idle", "done", "threw"}
  /\ Free("monitor")
  /\ ops < MaxOps
  /\ ops' = ops + 1
  /\ IF db = "null"
     THEN /\ mon' = [IdleMon EXCEPT !.pc = "threw"]
          /\ run' = run
     ELSE LET pending == selectPending
          IN  IF Len(pending) = 0
              THEN /\ mon' = [IdleMon EXCEPT !.pc = "done", !.idx = 1]
                   /\ run' = run
              ELSE /\ mon' = [pc |-> "running", pending |-> pending, idx |-> 1,
                              invoked |-> <<pending[1]>>, errors |-> <<>>]
                   /\ run' = [run EXCEPT !["monitor"] = NewRun(pending[1])]
  /\ UNCHANGED <<db, users, incidentMedia, statistics, response, faults>>
  /\ UNCHANGED tables

\* the awaited activation ended: the loop takes the next item, or the sweep returns
MonitorNext ==
  /\ mon.pc = "running"
  /\ Finished("monitor")
  /\ LET m == MonitorAfter(mon, run["monitor"].pc)
     IN  IF m.pc # "running"
         THEN /\ mon' = m
              /\ run' = run
         ELSE IF m.idx > Len(m.pending)
         THEN /\ mon' = [m EXCEPT !.pc = "done"]
              /\ run' = run
         ELSE /\ mon' = [m EXCEPT !.invoked = Append(@, m.pending[m.idx])]
              /\ run' = [run EXCEPT !["monitor"] = NewRun(m.pending[m.idx])]
  /\ UNCHANGED <<db, users, incidentMedia, statistics, response, ops, faults>>
  /\ UNCHANGED tables

(* --------------------------- router procedures ------------------------ *)

\* variant: the procedure inserts the incident and leaves the history as it is
IncidentsCreateWithoutHistory(incidentType) ==
  /\ ops < MaxOps
  /\ ops' = ops + 1
  /\ IF db = "null"
     THEN /\ Answer("incidents.create", [incidentType |-> incidentType],
                    "Database not available", 0)
          /\ UNCHANGED tables
     ELSE /\ incidents' = Append(incidents, newIncident(incidentType))
          /\ Answer("incidents.create", [incidentType |-> incidentType], "",
                    Len(incidents) + 1)
          /\ UNCHANGED <<services, incidentHistory, incidentParties, reportSends>>
  /\ UNCHANGED <<db, users, incidentMedia, statistics, run, mon, faults>>

\* incidents.create: createIncident, then the "Incident created" history row, two
\* awaited writes with no transaction around them; no role is checked
IncidentsCreate(incidentType) ==
  /\ ops < MaxOps
  /\ ops' = ops + 1
  /\ LET input == [incidentType |-> incidentType]
     IN  IF db = "null"
         THEN /\ Answer("incidents.create", input, "Database not available", 0)
              /\ UNCHANGED tables
              /\ UNCHANGED faults
         ELSE \/ /\ incidents' = Append(incidents, newIncident(incidentType))
                 /\ incidentHistory' =
                      addIncidentHistory(Len(incidents) + 1, "Incident created", incidentType)
                 /\ Answer("incidents.create", input, "", Len(incidents) + 1)
                 /\ UNCHANGED <<services, incidentParties, reportSends>>
                 /\ UNCHANGED faults
              \/ \E k \in 1..2 :
                   \* the k-th Store write of the call rejects: the incident row
                   \* stays when it is the history write that rejects
                   /\ faults < MaxFaults
                   /\ faults' = faults + 1
                   /\ incidents' = IF k = 2 THEN Append(incidents, newIncident(incidentType))
                                   ELSE incidents
                   /\ Answer("incidents.create", input, "Store write rejected", 0)
                   /\ UNCHANGED <<services, incidentHistory, incidentParties, reportSends>>
  /\ UNCHANGED <<db, users, incidentMedia, statistics, run, mon>>

\* parties.add: the role check, addIncidentParty, then the "Party added" history row
\* (the party's name, phone and vehicle number are left out of the rows)
PartiesAdd(role, incidentId) ==
  /\ ops < MaxOps
  /\ ops' = ops + 1
  /\ IF role = "user"
     THEN /\ response' = [proc |-> "parties.add",
                          input |-> [role |-> role, incidentId |-> incidentId],
                          request |-> ops + 1, error |-> "Unauthorized",
                          value |-> 0]
          /\ UNCHANGED tables
     ELSE IF db = "null"
     THEN /\ response' = [proc |-> "parties.add",
                          input |-> [role |-> role, incidentId |-> incidentId],
                          request |-> ops + 1, error |-> "Database not available",
                          value |-> 0]
          /\ UNCHANGED tables
     ELSE /\ incidentParties' = addIncidentParty(incidentId)
          /\ incidentHistory' =
               addIncidentHistory(incidentId, "Party added", "Party added to incident")
          /\ response' = [proc |-> "parties.add",
                          input |-> [role |-> role, incidentId |-> incidentId],
                          request |-> ops + 1, error |-> "",
                          value |-> Len(incidentParties) + 1]
          /\ UNCHANGED <<incidents, services, reportSends>>
  /\ UNCHANGED <<db, users, incidentMedia, statistics, run, mon, faults>>

\* the recipient types in the order of the router's enum
RecipientOrder == <<"party", "insurance", "najm", "operator">>

\* the inputs of reports.send tried: lists of recipients, each reduced to its type;
\* the first n types of the enum, and n recipients of the same type
RecipientLists ==
  {SubSeq(RecipientOrder, 1, n) : n \in 0..MathMin(MaxRecipients, Len(RecipientOrder))}
    \cup {[i \in 1..n |-> "party"] : n \in 0..MaxRecipients}


\* variant: the loop creates one row per distinct recipient type
createReportSendsDistinct(incidentId, recipients, n) ==
  LET Rows[k \in 0..n] ==
        IF k = 0 THEN <<>>
        ELSE IF \E j \in 1..(k - 1) : recipients[j] = recipients[k] THEN Rows[k - 1]
        ELSE Append(Rows[k - 1], newReportSend(incidentId, recipients[k]))
  IN  reportSends \o Rows[n]

\* the loop of reports.send over the first n recipients: one createReportSend each
createReportSends(incidentId, recipients, n) ==
  reportSends \o [i \in 1..n |-> newReportSend(incidentId, recipients[i])]

\* the insertIds the loop of reports.send pushes to results
sendResults(recipients) == [i \in 1..Len(recipients) |-> Len(reportSends) + i]

\* reports.send: one createReportSend per recipient, then the "Report sent" history
\* row; the answer's count is results.length.  The caller's role is never read.
ReportsSend(role, incidentId, recipients) ==
  /\ ops < MaxOps
  /\ ops' = ops + 1
  /\ LET input == [role |-> role, incidentId |-> incidentId, recipients |-> recipients]
     IN  IF db = "null"
         THEN /\ Answer("reports.send", input, "Database not available", 0)
              /\ UNCHANGED tables
              /\ UNCHANGED faults
         ELSE \/ /\ reportSends' =
                      createReportSends(incidentId, recipients, Len(recipients))
                 /\ incidentHistory' =
                      addIncidentHistory(incidentId, "Report sent",
                        "Report sent to " \o ToString(Len(recipients)) \o " recipients")
                 /\ Answer("reports.send", input, "", Len(sendResults(recipients)))
                 /\ UNCHANGED <<incidents, services, incidentParties>>
                 /\ UNCHANGED faults
              \/ \E k \in 1..(Len(recipients) + 1) :
                   \* the k-th Store write of the call rejects: the rows before it stay
                   /\ faults < MaxFaults
                   /\ faults' = faults + 1
                   /\ reportSends' = createReportSends(incidentId, recipients, k - 1)
                   /\ Answer("reports.send", input, "Store write rejected", 0)
                   /\ UNCHANGED <<incidents, services, incidentHistory, incidentParties>>
  /\ UNCHANGED <<db, users, incidentMedia, statistics, run, mon>>

\* JSON.parse on the texts tried: the value for a JSON text (written out as the
\* text of the value), no entry for a text that is not JSON
JSONParse ==
  [json_object |-> "{damageLevel: 40, severity: high}",
   json_null   |-> "null"]

\* the texts the collaborator answers: two JSON texts and one that is not JSON
Contents == {"json_object", "json_null", "not_json"}

\* what invokeLLM does: it throws (so does a failed import), it returns a
\* response without choices, or a response whose first choice has a string
\* content, a content in parts, or none
LlmResults ==
  {[call |-> c, contentType |-> "undefined", content |-> "undefined"] :
     c \in {"throws", "returns without choices"}}
    \cup {[call |-> "returns", contentType |-> "string", content |-> c] : c \in Contents}
    \cup {[call |-> "returns", contentType |-> t, content |-> "undefined"] :
            t \in {"array", "undefined"}}


\* variant: no catch around the call and the parse
AnalyzeImagesUncaught(result) ==
  /\ ops < MaxOps
  /\ ops' = ops + 1
  /\ IF result.call # "returns"
     THEN Answer("incidents.analyzeImages", result, "invokeLLM failed", 0)
     ELSE IF result.contentType # "string"
     THEN Answer("incidents.analyzeImages", result, "",
                 [success |-> TRUE, extractedData |-> "null"])
     ELSE IF result.content \in DOMAIN JSONParse
     THEN Answer("incidents.analyzeImages", result, "",
                 [success |-> TRUE, extractedData |-> JSONParse[result.content]])
     ELSE Answer("incidents.analyzeImages", result, "SyntaxError", 0)
  /\ UNCHANGED <<db, users, incidentMedia, statistics, run, mon, faults>>
  /\ UNCHANGED tables

\* incidents.analyzeImages, given what the collaborator does: the whole body is
\* in a try whose catch logs and answers {success: false, extractedData: null};
\* no Store function is called
AnalyzeImages(result) ==
  /\ ops < MaxOps
  /\ ops' = ops + 1
  /\ IF result.call # "returns"
     THEN Answer("incidents.analyzeImages", result, "",
                 [success |-> FALSE, extractedData |-> "null"])
     ELSE IF result.contentType # "string"
     THEN Answer("incidents.analyzeImages", result, "",
                 [success |-> TRUE, extractedData |-> "null"])
     ELSE IF result.content \in DOMAIN JSONParse
     THEN Answer("incidents.analyzeImages", result, "",
                 [success |-> TRUE, extractedData |-> JSONParse[result.content]])
     ELSE Answer("incidents.analyzeImages", result, "",
                 [success |-> FALSE, extractedData |-> "null"])
  /\ UNCHANGED <<db, users, incidentMedia, statistics, run, mon, faults>>
  /\ UNCHANGED tables

\* the statuses incidents.updateStatus is called with: the initial one, the one
\* automatic processing writes, and a final one
ManualStatuses == {"pending", "in_progress", "closed"}

\* variant: the role is checked after the update and the history row
IncidentsUpdateStatusLateCheck(role, id, status) ==
  /\ ops < MaxOps
  /\ ops' = ops + 1
  /\ LET input == [role |-> role, id |-> id, status |-> status]
     IN  IF db = "null"
         THEN /\ Answer("incidents.updateStatus", input, "Database not available", 0)
              /\ UNCHANGED tables
         ELSE /\ incidents' = setIncidentStatus(id, status)
              /\ incidentHistory' =
                   addIncidentHistory(id, "Status updated", "Status changed to " \o status)
              /\ Answer("incidents.updateStatus", input,
                        IF role = "user"
                        THEN "Unauthorized: Only operators and admins can update incident status"
                        ELSE "", 1)
              /\ UNCHANGED <<services, incidentParties, reportSends>>
  /\ UNCHANGED <<db, users, incidentMedia, statistics, run, mon, faults>>

\* incidents.updateStatus: the role check, updateIncidentStatus, then the "Status
\* updated" history row; answers {success: true}
IncidentsUpdateStatus(role, id, status) ==
  /\ ops < MaxOps
  /\ ops' = ops + 1
  /\ LET input == [role |-> role, id |-> id, status |-> status]
     IN  IF role = "user"
         THEN /\ Answer("incidents.updateStatus", input,
                        "Unauthorized: Only operators and admins can update incident status",
                        0)
              /\ UNCHANGED tables
         ELSE IF db = "null"
         THEN /\ Answer("incidents.updateStatus", input, "Database not available", 0)
              /\ UNCHANGED tables
         ELSE /\ incidents' = setIncidentStatus(id, status)
              /\ incidentHistory' =
                   addIncidentHistory(id, "Status updated", "Status changed to " \o status)
              /\ Answer("incidents.updateStatus", input, "", 1)
              /\ UNCHANGED <<services, incidentParties, reportSends>>
  /\ UNCHANGED <<db, users, incidentMedia, statistics, run, mon, faults>>

ServiceStatuses == {"pending", "assigned", "en_route", "arrived", "completed", "cancelled"}

\* the service types services.create is called with
RequestedTypes == {"ambulance", "police"}


\* variant: the update leaves a row that is already further along as it is
setServiceStatusForward(serviceId, status) ==
  LET order == <<"pending", "assigned", "en_route", "arrived", "completed">>
      rank(st) == CHOOSE k \in 1..Len(order) : order[k] = st
  IN  [i \in 1..Len(services) |->
         IF i = serviceId /\ (status = "cancelled" \/
                                (services[i].status # "cancelled" /\
                                   rank(status) >= rank(services[i].status)))
         THEN [services[i] EXCEPT !.status = status]
         ELSE services[i]]

\* update(services).set({status}).where(eq(services.id, serviceId)): no row is
\* touched when the id does not resolve (updatedAt is not a field of the rows here)
setServiceStatus(serviceId, status) ==
  [i \in 1..Len(services) |->
     IF i = serviceId THEN [services[i] EXCEPT !.status = status] ELSE services[i]]

\* services.create: the role check, createService, then the "Service requested"
\* history row; answers the insertId
ServicesCreate(role, incidentId, serviceType) ==
  /\ ops < MaxOps
  /\ ops' = ops + 1
  /\ LET input == [role |-> role, incidentId |-> incidentId, serviceType |-> serviceType]
     IN  IF role = "user"
         THEN /\ Answer("services.create", input, "Unauthorized", 0)
              /\ UNCHANGED tables
         ELSE IF db = "null"
         THEN /\ Answer("services.create", input, "Database not available", 0)
              /\ UNCHANGED tables
         ELSE /\ services' = insertService(incidentId, serviceType)
              /\ incidentHistory' =
                   addIncidentHistory(incidentId, "Service requested",
                                      serviceType \o " service requested")
              /\ Answer("services.create", input, "", Len(services) + 1)
              /\ UNCHANGED <<incidents, incidentParties, reportSends>>
  /\ UNCHANGED <<db, users, incidentMedia, statistics, run, mon, faults>>

\* services.updateStatus: the role check, updateServiceStatus, then the "Service
\* status updated" history row for input.incidentId; answers {success: true}
ServicesUpdateStatus(role, id, incidentId, status) ==
  /\ ops < MaxOps
  /\ ops' = ops + 1
  /\ LET input == [role |-> role, id |-> id, incidentId |-> incidentId, status |-> status]
     IN  IF role = "user"
         THEN /\ Answer("services.updateStatus", input, "Unauthorized", 0)
              /\ UNCHANGED tables
         ELSE IF db = "null"
         THEN /\ Answer("services.updateStatus", input, "Database not available", 0)
              /\ UNCHANGED tables
         ELSE /\ services' = setServiceStatus(id, status)
              /\ incidentHistory' =
                   addIncidentHistory(incidentId, "Service status updated",
                                      "Service status changed to " \o status)
              /\ Answer("services.updateStatus", input, "", 1)
              /\ UNCHANGED <<incidents, incidentParties, reportSends>>
  /\ UNCHANGED <<db, users, incidentMedia, statistics, run, mon, faults>>

\* parties.updateFaultPercentage: the role check, updatePartyFaultPercentage, then
\* the "Fault percentage updated" history row for input.incidentId; answers
\* {success: true}
PartiesUpdateFaultPercentage(role, partyId, incidentId, faultPercentage) ==
  /\ ops < MaxOps
  /\ ops' = ops + 1
  /\ LET input == [role |-> role, partyId |-> partyId, incidentId |-> incidentId,
                   faultPercentage |-> faultPercentage]
     IN  IF role = "user"
         THEN /\ Answer("parties.updateFaultPercentage", input, "Unauthorized", 0)
              /\ UNCHANGED tables
         ELSE IF db = "null"
         THEN /\ Answer("parties.updateFaultPercentage", input, "Database not available", 0)
              /\ UNCHANGED tables
         ELSE /\ incidentParties' = setFaultPercentage(partyId, faultPercentage)
              /\ incidentHistory' =
                   addIncidentHistory(incidentId, "Fault percentage updated",
                     "Fault percentage set to " \o ToString(faultPercentage) \o "%")
              /\ Answer("parties.updateFaultPercentage", input, "", 1)
              /\ UNCHANGED <<incidents, services, reportSends>>
  /\ UNCHANGED <<db, users, incidentMedia, statistics, run, mon, faults>>

\* variant: the media row is inserted whatever the caller's role, the role is
\* checked before the history row only
MediaAddLateCheck(role, incidentId, mediaType) ==
  /\ ops < MaxOps
  /\ ops' = ops + 1
  /\ LET input == [role |-> role, incidentId |-> incidentId, mediaType |-> mediaType]
     IN  IF db = "null"
         THEN /\ Answer("media.add", input, "Database not available", 0)
              /\ UNCHANGED <<tables, incidentMedia>>
         ELSE /\ incidentMedia' = addIncidentMedia(incidentId, mediaType, "undefined")
              /\ IF role = "user"
                 THEN /\ Answer("media.add", input, "Unauthorized", 0)
                      /\ UNCHANGED incidentHistory
                 ELSE /\ incidentHistory' =
                           addIncidentHistory(incidentId, "Media added",
                                              mediaType \o " media added to incident")
                      /\ Answer("media.add", input, "", Len(incidentMedia) + 1)
              /\ UNCHANGED <<incidents, services, incidentParties, reportSends>>
  /\ UNCHANGED <<db, users, statistics, run, mon, faults>>

\* media.add: the role check, addIncidentMedia, then the "Media added" history
\* row; answers the insertId (the url and the description are left out of the rows)
MediaAdd(role, incidentId, mediaType) ==
  /\ ops < MaxOps
  /\ ops' = ops + 1
  /\ LET input == [role |-> role, incidentId |-> incidentId, mediaType |-> mediaType]
     IN  IF role = "user"
         THEN /\ Answer("media.add", input, "Unauthorized", 0)
              /\ UNCHANGED <<tables, incidentMedia>>
         ELSE IF db = "null"
         THEN /\ Answer("media.add", input, "Database not available", 0)
              /\ UNCHANGED <<tables, incidentMedia>>
         ELSE /\ incidentMedia' = addIncidentMedia(incidentId, mediaType, "undefined")
              /\ incidentHistory' =
                   addIncidentHistory(incidentId, "Media added",
                                      mediaType \o " media added to incident")
              /\ Answer("media.add", input, "", Len(incidentMedia) + 1)
              /\ UNCHANGED <<incidents, services, incidentParties, reportSends>>
  /\ UNCHANGED <<db, users, statistics, run, mon, faults>>

(* ---------------- analysis functions called on their own -------------- *)

\* the incident types the functions are called with: the three the switch
\* statements name, one they do not name, and the inherited names
AnalysisTypes == IncidentTypes \cup {"other"} \cup InheritedKeys

\* the estimated speeds tried
Speeds == {0, 30, 80, 81, 85, 200}

\* the video analyses calculateFaultPercentage is called with: one per speed and
\* one without the property
VideoAnalyses == {[estimatedSpeed |-> v] : v \in Speeds} \cup {Inherited("constructor")}

FaultPercentages == 0..100

\* the functions keep no state between calls: one call is made, on the
\* backend as constructed
FirstCall == ops = 0

\* the keys of the alerts object of sendSmartAlerts, as Object.keys(alerts)
\* .map(Number) lists them: integer keys come in ascending order
alertKeys == <<0, 1, 2, 5>>

\* alerts[d]: the line for each key
alerts(d) ==
  CASE d = 5 -> "service is 5 km away"
    [] d = 2 -> "service is 2 km away"
    [] d = 1 -> "service is 1 km away"
    [] d = 0 -> "service has arrived"

\* .sort((a, b) => b - a): the same numbers, the largest first
SortDescending(keys) ==
  CHOOSE sorted \in [1..Len(keys) -> {keys[i] : i \in 1..Len(keys)}] :
    /\ \A i \in 1..Len(keys) : \E j \in 1..Len(keys) : sorted[j] = keys[i]
    /\ \A i, j \in 1..Len(keys) : i < j => sorted[i] >= sorted[j]

\* a distance in km is the fraction num / den; distanceKm <= d
AtMost(distanceKm, d) == distanceKm[1] <= d * distanceKm[2]

\* .find((d) => distanceKm <= d): the first number of the list the distance is
\* at most, as a list of one, or the empty list for undefined
Find(distanceKm, sorted) ==
  LET hits == {i \in 1..Len(sorted) : AtMost(distanceKm, sorted[i])}
  IN  IF hits = {} THEN <<>>
      ELSE <<sorted[CHOOSE i \in hits : \A j \in hits : i <= j]>>

\* the line sendSmartAlerts logs for a distance, "" when it logs nothing
sendSmartAlerts(distanceKm) ==
  LET closestDistance == Find(distanceKm, SortDescending(alertKeys))
  IN  IF closestDistance # <<>> THEN alerts(closestDistance[1]) ELSE ""

\* the distances tried, in km: 0, 1/2, 1, 3/2, 2, 7/2, 5, 11/2, 9
Distances ==
  {<<0, 1>>, <<1, 2>>, <<1, 1>>, <<3, 2>>, <<2, 1>>, <<7, 2>>, <<5, 1>>, <<11, 2>>,
   <<9, 1>>}

\* sendSmartAlerts(incidentId, serviceType, distanceKm): it only logs
CallSendSmartAlerts(serviceType, distanceKm) ==
  /\ FirstCall
  /\ ops' = ops + 1
  /\ Answer("sendSmartAlerts", [serviceType |-> serviceType, distanceKm |-> distanceKm],
            "", sendSmartAlerts(distanceKm))
  /\ UNCHANGED <<db, users, incidentMedia, statistics, run, mon, faults>>
  /\ UNCHANGED tables

\* calculateFaultPercentage(incidentType, videoAnalysis) with Math.random() drawn
\* as rnd / RandomSteps
CallCalculateFaultPercentage(incidentType, videoAnalysis, rnd) ==
  /\ FirstCall
  /\ ops' = ops + 1
  /\ Answer("calculateFaultPercentage",
            [incidentType |-> incidentType, videoAnalysis |-> videoAnalysis, rnd |-> rnd],
            "", calculateFaultPercentage(incidentType, videoAnalysis, rnd))
  /\ UNCHANGED <<db, users, incidentMedia, statistics, run, mon, faults>>
  /\ UNCHANGED tables

\* makeAIDecision(incidentType, faultPercentage, videoAnalysis)
CallMakeAIDecision(incidentType, faultPercentage) ==
  /\ FirstCall
  /\ ops' = ops + 1
  /\ Answer("makeAIDecision",
            [incidentType |-> incidentType, faultPercentage |-> faultPercentage],
            "", makeAIDecision(incidentType, faultPercentage,
                               simulateVideoAnalysis(incidentType)))
  /\ UNCHANGED <<db, users, incidentMedia, statistics, run, mon, faults>>
  /\ UNCHANGED tables

\* what generateSmartReport computes from an incident row of the given type:
\* simulateVideoAnalysis, calculateFaultPercentage, determineServices,
\* makeAIDecision and determineSeverity
CallSmartReport(incidentType, rnd) ==
  /\ FirstCall
  /\ ops' = ops + 1
  /\ Answer("generateSmartReport", [incidentType |-> incidentType, rnd |-> rnd],
            "", SmartReport(0, [incidentType |-> incidentType], rnd))
  /\ UNCHANGED <<db, users, incidentMedia, statistics, run, mon, faults>>
  /\ UNCHANGED tables

(* ------------------ Store functions called directly ------------------ *)

\* new Date() while the call numbered ops + 1 is served
Now == "t" \o ToString(ops + 1)

ReportSendStatuses == {"pending", "sent", "failed", "read"}

\* the failureReason arguments tried: left out, the empty text, a text
FailureReasons == {"undefined", "", "mailbox full"}

\* failureReason as a condition: undefined and the empty string are falsy
Truthy(failureReason) == failureReason \notin {"undefined", ""}

\* ENV.ownerOpenId
OwnerOpenId == "owner"

\* the openIds tried: none, the owner's, another user's
OpenIds == {"", OwnerOpenId, "u1"}

\* the role argument of upsertUser: left out, or given
RoleArguments == {"undefined", "user", "admin"}

\* the isSimulated argument of addIncidentMedia: left out, or given
SimulatedArguments == {"undefined", "true", "false"}

\* the positions of the users rows with the openId (openId is a unique key)
UserRows(openId) == {i \in 1..Len(users) : users[i].openId = openId}

\* a Store function that only reads: without a connection it answers `without`,
\* with one the rows selected; no table is written either way
DbRead(proc, input, without, selected) ==
  /\ ops < MaxOps
  /\ ops' = ops + 1
  /\ Answer(proc, input, "", IF db = "null" THEN without ELSE selected)
  /\ UNCHANGED <<db, run, mon, faults>>
  /\ UNCHANGED store


\* variant: a write called without a connection skips the write and returns
DbReturns(proc, input) ==
  /\ Answer(proc, input, "", 0)
  /\ UNCHANGED store

\* a Store function that writes, called without a connection: it throws
DbThrows(proc, input) ==
  /\ Answer(proc, input, "Database not available", 0)
  /\ UNCHANGED store


\* upsertUser: throws without an openId; without a connection it warns and
\* returns; else insert ... on duplicate key update, the role set when given or
\* when the user is the owner, lastSignedIn updated when nothing else is
\* (name, email and loginMethod are not fields of the rows here)
DbUpsertUser(openId, role) ==
  /\ ops < MaxOps
  /\ ops' = ops + 1
  /\ LET input   == [openId |-> openId, role |-> role]
         newRole == IF role # "undefined" THEN role
                    ELSE IF openId = OwnerOpenId THEN "admin" ELSE "undefined"
     IN  IF openId = ""
         THEN /\ Answer("upsertUser", input, "User openId is required for upsert", 0)
              /\ UNCHANGED users
         ELSE IF db = "null"
         THEN /\ Answer("upsertUser", input, "", 0)
              /\ UNCHANGED users
         ELSE /\ users' =
                   IF UserRows(openId) = {}
                   THEN Append(users, [openId |-> openId,
                                       role |-> IF newRole = "undefined" THEN "user"
                                                ELSE newRole,
                                       lastSignedIn |-> Now])
                   ELSE [i \in 1..Len(users) |->
                           IF users[i].openId # openId THEN users[i]
                           ELSE IF newRole = "undefined"
                           THEN [users[i] EXCEPT !.lastSignedIn = Now]
                           ELSE [users[i] EXCEPT !.role = newRole]]
              /\ Answer("upsertUser", input, "", 0)
  /\ UNCHANGED <<incidents, services, incidentHistory, incidentParties, reportSends,
                 incidentMedia, statistics>>
  /\ UNCHANGED <<db, run, mon, faults>>

\* getUserByOpenId: undefined without a connection or without a row
DbGetUserByOpenId(openId) ==
  DbRead("getUserByOpenId", [openId |-> openId], "undefined",
         IF UserRows(openId) = {} THEN "undefined"
         ELSE users[CHOOSE i \in UserRows(openId) : TRUE])

\* createIncident: throws without a connection, else inserts a pending incident
DbCreateIncident(incidentType) ==
  /\ ops < MaxOps
  /\ ops' = ops + 1
  /\ IF db = "null"
     THEN DbThrows("createIncident", [incidentType |-> incidentType])
     ELSE /\ incidents' = Append(incidents, newIncident(incidentType))
          /\ Answer("createIncident", [incidentType |-> incidentType], "",
                    Len(incidents) + 1)
          /\ UNCHANGED <<services, incidentHistory, incidentParties, reportSends,
                         users, incidentMedia, statistics>>
  /\ UNCHANGED <<db, run, mon, faults>>

\* getIncidentById: null without a connection or without a row
DbGetIncidentById(incidentId) ==
  DbRead("getIncidentById", [incidentId |-> incidentId], "null",
         IF incidentId \in 1..Len(incidents) THEN incidents[incidentId] ELSE "null")

\* getAllIncidents(limit, offset): [] without a connection
DbGetAllIncidents(limit, offset) ==
  DbRead("getAllIncidents", [limit |-> limit, offset |-> offset], <<>>,
         SubSeq(incidents, offset + 1, MathMin(Len(incidents), offset + limit)))

\* updateIncidentStatus: throws without a connection, else the update
DbUpdateIncidentStatus(incidentId, status) ==
  /\ ops < MaxOps
  /\ ops' = ops + 1
  /\ IF db = "null"
     THEN DbThrows("updateIncidentStatus", [incidentId |-> incidentId, status |-> status])
     ELSE /\ incidents' = setIncidentStatus(incidentId, status)
          /\ Answer("updateIncidentStatus", [incidentId |-> incidentId, status |-> status],
                    "", 0)
          /\ UNCHANGED <<services, incidentHistory, incidentParties, reportSends,
                         users, incidentMedia, statistics>>
  /\ UNCHANGED <<db, run, mon, faults>>

\* addIncidentParty: throws without a connection, else inserts the party
DbAddIncidentParty(incidentId) ==
  /\ ops < MaxOps
  /\ ops' = ops + 1
  /\ IF db = "null"
     THEN DbThrows("addIncidentParty", [incidentId |-> incidentId])
     ELSE /\ incidentParties' = addIncidentParty(incidentId)
          /\ Answer("addIncidentParty", [incidentId |-> incidentId], "", Len(incidentParties) + 1)
          /\ UNCHANGED <<incidents, services, incidentHistory, reportSends,
                         users, incidentMedia, statistics>>
  /\ UNCHANGED <<db, run, mon, faults>>

\* getIncidentParties: [] without a connection
DbGetIncidentParties(incidentId) ==
  DbRead("getIncidentParties", [incidentId |-> incidentId], <<>>,
         PartiesOf(incidentId))

\* updatePartyFaultPercentage: throws without a connection, else the update
DbUpdatePartyFaultPercentage(partyId, faultPercentage) ==
  /\ ops < MaxOps
  /\ ops' = ops + 1
  /\ IF db = "null"
     THEN DbThrows("updatePartyFaultPercentage",
                   [partyId |-> partyId, faultPercentage |-> faultPercentage])
     ELSE /\ incidentParties' = [i \in 1..Len(incidentParties) |->
                 IF i = partyId
                 THEN [incidentParties[i] EXCEPT !.faultPercentage = faultPercentage]
                 ELSE incidentParties[i]]
          /\ Answer("updatePartyFaultPercentage",
                    [partyId |-> partyId, faultPercentage |-> faultPercentage], "", 0)
          /\ UNCHANGED <<incidents, services, incidentHistory, reportSends,
                         users, incidentMedia, statistics>>
  /\ UNCHANGED <<db, run, mon, faults>>

\* createService: throws without a connection, else inserts a pending service
DbCreateService(incidentId, serviceType) ==
  /\ ops < MaxOps
  /\ ops' = ops + 1
  /\ IF db = "null"
     THEN DbThrows("createService", [incidentId |-> incidentId, serviceType |-> serviceType])
     ELSE /\ services' = insertService(incidentId, serviceType)
          /\ Answer("createService",
                    [incidentId |-> incidentId, serviceType |-> serviceType], "",
                    Len(services) + 1)
          /\ UNCHANGED <<incidents, incidentHistory, incidentParties, reportSends,
                         users, incidentMedia, statistics>>
  /\ UNCHANGED <<db, run, mon, faults>>

\* getIncidentServices: [] without a connection
DbGetIncidentServices(incidentId) ==
  DbRead("getIncidentServices", [incidentId |-> incidentId], <<>>,
         ServicesOf(incidentId))

\* updateServiceStatus: throws without a connection, else the update
DbUpdateServiceStatus(serviceId, status) ==
  /\ ops < MaxOps
  /\ ops' = ops + 1
  /\ IF db = "null"
     THEN DbThrows("updateServiceStatus", [serviceId |-> serviceId, status |-> status])
     ELSE /\ services' = setServiceStatus(serviceId, status)
          /\ Answer("updateServiceStatus", [serviceId |-> serviceId, status |-> status], "", 0)
          /\ UNCHANGED <<incidents, incidentHistory, incidentParties, reportSends,
                         users, incidentMedia, statistics>>
  /\ UNCHANGED <<db, run, mon, faults>>

\* addIncidentMedia: throws without a connection, else inserts the media row,
\* isSimulated ?? true
DbAddIncidentMedia(incidentId, mediaType, isSimulated) ==
  /\ ops < MaxOps
  /\ ops' = ops + 1
  /\ IF db = "null"
     THEN DbThrows("addIncidentMedia", [incidentId |-> incidentId, mediaType |-> mediaType,
                      isSimulated |-> isSimulated])
     ELSE /\ incidentMedia' = Append(incidentMedia,
                 [incidentId |-> incidentId, mediaType |-> mediaType,
                  isSimulated |-> IF isSimulated = "undefined" THEN "true"
                                  ELSE isSimulated])
          /\ Answer("addIncidentMedia", [incidentId |-> incidentId, mediaType |-> mediaType,
                      isSimulated |-> isSimulated], "", Len(incidentMedia) + 1)
          /\ UNCHANGED <<incidents, services, incidentHistory, incidentParties,
                         reportSends, users, statistics>>
  /\ UNCHANGED <<db, run, mon, faults>>

\* getIncidentMedia: [] without a connection
DbGetIncidentMedia(incidentId) ==
  DbRead("getIncidentMedia", [incidentId |-> incidentId], <<>>,
         SelectSeq(incidentMedia, LAMBDA m : m.incidentId = incidentId))

\* addIncidentHistory called with an action and no details: throws without a
\* connection, else inserts the row
DbAddIncidentHistory(incidentId, action) ==
  /\ ops < MaxOps
  /\ ops' = ops + 1
  /\ IF db = "null"
     THEN DbThrows("addIncidentHistory", [incidentId |-> incidentId, action |-> action])
     ELSE /\ incidentHistory' = addIncidentHistory(incidentId, action, "undefined")
          /\ Answer("addIncidentHistory", [incidentId |-> incidentId, action |-> action], "", 0)
          /\ UNCHANGED <<incidents, services, incidentParties, reportSends,
                         users, incidentMedia, statistics>>
  /\ UNCHANGED <<db, run, mon, faults>>

\* getIncidentHistory: [] without a connection, else the rows in the order of
\* their creation
DbGetIncidentHistory(incidentId) ==
  DbRead("getIncidentHistory", [incidentId |-> incidentId], <<>>,
         HistoryOf(incidentId))

\* the row of the statistics table for today that updateStatistics inserts
ZeroStatistics ==
  [date |-> "today", totalIncidents |-> 0, injuryIncidents |-> 0,
   breakdownIncidents |-> 0, trafficIncidents |-> 0, averageResolutionTime |-> 0]

\* getTodayStatistics: null without a connection or without a row for today
DbGetTodayStatistics ==
  DbRead("getTodayStatistics", [none |-> TRUE], "null",
         LET today == SelectSeq(statistics, LAMBDA t : t.date = "today")
         IN  IF Len(today) > 0 THEN today[1] ELSE "null")

\* updateStatistics: throws without a connection, else selects the injury
\* incidents and inserts a row of zeros for today
DbUpdateStatistics ==
  /\ ops < MaxOps
  /\ ops' = ops + 1
  /\ IF db = "null"
     THEN DbThrows("updateStatistics", [none |-> TRUE])
     ELSE /\ statistics' = Append(statistics, ZeroStatistics)
          /\ Answer("updateStatistics", [none |-> TRUE], "", 0)
          /\ UNCHANGED <<incidents, services, incidentHistory, incidentParties,
                         reportSends, users, incidentMedia>>
  /\ UNCHANGED <<db, run, mon, faults>>

\* getReportSends: [] without a connection
DbGetReportSends(incidentId) ==
  DbRead("getReportSends", [incidentId |-> incidentId], <<>>,
         ReportSendsOf(incidentId))

\* the recipient types createReportSend is called with directly
DirectRecipients == {"party", "operator"}


\* variant: the status is set and no timestamp is taken
updateDataStatusOnly(row, status, failureReason) ==
  IF status = "failed" /\ Truthy(failureReason)
  THEN [row EXCEPT !.status = status, !.failureReason = failureReason]
  ELSE [row EXCEPT !.status = status]

\* variant: a failed transition stores the reason argument whatever it is
updateDataAnyReason(row, status, failureReason) ==
  IF status = "sent" THEN [row EXCEPT !.status = status, !.sentAt = Now]
  ELSE IF status = "read" THEN [row EXCEPT !.status = status, !.readAt = Now]
  ELSE IF status = "failed"
  THEN [row EXCEPT !.status = status,
                   !.failureReason = IF failureReason = "undefined" THEN "null"
                                     ELSE failureReason]
  ELSE [row EXCEPT !.status = status]

\* variant: a row that left pending is not set back to pending
updateDataPendingOnce(row, status, failureReason) ==
  IF status = "sent" THEN [row EXCEPT !.status = status, !.sentAt = Now]
  ELSE IF status = "read" THEN [row EXCEPT !.status = status, !.readAt = Now]
  ELSE IF status = "failed" /\ Truthy(failureReason)
  THEN [row EXCEPT !.status = status, !.failureReason = failureReason]
  ELSE IF status = "pending" /\ row.status # "pending" THEN row
  ELSE [row EXCEPT !.status = status]

\* updateData of updateReportSendStatus set on one row: the status always, sentAt
\* for sent, readAt for read, failureReason for failed with a truthy reason
\* (updatedAt is not a field of the rows here)
updateData(row, status, failureReason) ==
  IF status = "sent" THEN [row EXCEPT !.status = status, !.sentAt = Now]
  ELSE IF status = "read" THEN [row EXCEPT !.status = status, !.readAt = Now]
  ELSE IF status = "failed" /\ Truthy(failureReason)
  THEN [row EXCEPT !.status = status, !.failureReason = failureReason]
  ELSE [row EXCEPT !.status = status]

\* createReportSend: throws without a connection, else inserts a pending row and
\* answers its insertId
DbCreateReportSend(incidentId, recipientType) ==
  /\ ops < MaxOps
  /\ ops' = ops + 1
  /\ IF db = "null"
     THEN /\ Answer("createReportSend",
                    [incidentId |-> incidentId, recipientType |-> recipientType],
                    "Database not available", 0)
          /\ UNCHANGED reportSends
     ELSE /\ reportSends' = Append(reportSends, newReportSend(incidentId, recipientType))
          /\ Answer("createReportSend",
                    [incidentId |-> incidentId, recipientType |-> recipientType],
                    "", Len(reportSends) + 1)
  /\ UNCHANGED <<db, users, incidentMedia, statistics, run, mon, faults>>
  /\ UNCHANGED <<incidents, services, incidentHistory, incidentParties>>

\* updateReportSendStatus: throws without a connection, else one update with the
\* where clause id = reportSendId; no row is touched when the id does not resolve
DbUpdateReportSendStatus(reportSendId, status, failureReason) ==
  /\ ops < MaxOps
  /\ ops' = ops + 1
  /\ IF db = "null"
     THEN /\ Answer("updateReportSendStatus",
                    [reportSendId |-> reportSendId, status |-> status,
                     failureReason |-> failureReason],
                    "Database not available", 0)
          /\ UNCHANGED reportSends
     ELSE /\ reportSends' =
               [i \in 1..Len(reportSends) |->
                  IF i = reportSendId
                  THEN updateData(reportSends[i], status, failureReason)
                  ELSE reportSends[i]]
          /\ Answer("updateReportSendStatus",
                    [reportSendId |-> reportSendId, status |-> status,
                     failureReason |-> failureReason],
                    "", 0)
  /\ UNCHANGED <<db, users, incidentMedia, statistics, run, mon, faults>>
  /\ UNCHANGED <<incidents, services, incidentHistory, incidentParties>>

Engine ==
  \/ \E incidentId \in IdSpace : ProcessIncidentAutomatically(incidentId)
  \/ \E r \in Callers :
       \/ GenerateSmartReport(r)
       \/ RouteServicesAutomatically(r)
       \/ SendAlertsToParties(r)
       \/ UpdateIncidentStatus(r)
       \/ SendSmartReportToParties(r)
  \/ MonitorLoad
  \/ MonitorNext

\* the automation engine with the procedures that create what it reads
EngineNext ==
  \/ Engine
  \/ \E incidentType \in IncidentTypes : IncidentsCreate(incidentType)
  \/ \E role \in Roles, incidentId \in IdSpace : PartiesAdd(role, incidentId)

SpecEngine == Init /\ [][EngineNext]_vars

\* the report dispatcher with incident creation, reports.send called by an
\* operator
DispatchNext ==
  \/ \E incidentType \in IncidentTypes : IncidentsCreate(incidentType)
  \/ \E incidentId \in IdSpace, recipients \in RecipientLists :
       ReportsSend("operator", incidentId, recipients)

SpecDispatch == Init /\ [][DispatchNext]_vars

\* the delivery tracking of report sends: rows created, then their status updated
DeliveryNext ==
  \/ \E incidentId \in IdSpace, recipientType \in DirectRecipients :
       DbCreateReportSend(incidentId, recipientType)
  \/ \E reportSendId \in IdSpace, status \in ReportSendStatuses,
        failureReason \in FailureReasons :
       DbUpdateReportSendStatus(reportSendId, status, failureReason)

SpecDelivery == Init /\ [][DeliveryNext]_vars

\* the manual handling of services: requests, then status updates of the rows
\* that exist, each with the incident of its row
ServicesNext ==
  \/ \E role \in Roles, incidentId \in IdSpace, serviceType \in RequestedTypes :
       ServicesCreate(role, incidentId, serviceType)
  \/ \E role \in Roles, id \in 1..Len(services), status \in ServiceStatuses :
       ServicesUpdateStatus(role, id, services[id].incidentId, status)

SpecServices == Init /\ [][ServicesNext]_vars

\* the life of an incident's status: creation, automatic processing and the
\* manual status update
LifecycleNext ==
  \/ Engine
  \/ \E incidentType \in IncidentTypes : IncidentsCreate(incidentType)
  \/ \E role \in Roles, id \in IdSpace, status \in ManualStatuses :
       IncidentsUpdateStatus(role, id, status)

SpecLifecycle == Init /\ [][LifecycleNext]_vars

\* the analysis functions of the engine, each called on its own, and the image
\* analysis of the router
AnalysisNext ==
  \/ \E incidentType \in AnalysisTypes, videoAnalysis \in VideoAnalyses,
        rnd \in 0..(RandomSteps - 1) :
       CallCalculateFaultPercentage(incidentType, videoAnalysis, rnd)
  \/ \E incidentType \in AnalysisTypes, faultPercentage \in FaultPercentages :
       CallMakeAIDecision(incidentType, faultPercentage)
  \/ \E incidentType \in AnalysisTypes, rnd \in 0..(RandomSteps - 1) :
       CallSmartReport(incidentType, rnd)
  \/ \E serviceType \in RequestedTypes, distanceKm \in Distances :
       CallSendSmartAlerts(serviceType, distanceKm)
  \/ \E result \in LlmResults : AnalyzeImages(result)

SpecAnalysis == Init /\ [][AnalysisNext]_vars

\* the monitor alone: incidents are reported and monitorIncidentsAutomatically is
\* called again and again, each sweep after the one before it has returned, its
\* activations one after the other
SweepsNext ==
  \/ \E incidentType \in IncidentTypes : IncidentsCreate(incidentType)
  \/ MonitorLoad
  \/ MonitorNext
  \/ GenerateSmartReport("monitor")
  \/ RouteServicesAutomatically("monitor")
  \/ SendAlertsToParties("monitor")
  \/ UpdateIncidentStatus("monitor")
  \/ SendSmartReportToParties("monitor")

SpecSweeps == Init /\ [][SweepsNext]_vars

\* the incident the calls of the router name: the first id, which resolves once
\* an incident is reported
NamedIds == {1}

\* the procedures of the router that write, called by callers of every role:
\* the status updates and the fault percentage for the rows that exist, each
\* with the incident of its row
RolesNext ==
  \/ \E incidentType \in IncidentTypes : IncidentsCreate(incidentType)
  \/ \E role \in Roles, id \in NamedIds : IncidentsUpdateStatus(role, id, "closed")
  \/ \E role \in Roles, incidentId \in NamedIds : PartiesAdd(role, incidentId)
  \/ \E role \in Roles, partyId \in 1..Len(incidentParties) :
       PartiesUpdateFaultPercentage(role, partyId, incidentParties[partyId].incidentId, 50)
  \/ \E role \in Roles, incidentId \in NamedIds : ServicesCreate(role, incidentId, "police")
  \/ \E role \in Roles, id \in 1..Len(services) :
       ServicesUpdateStatus(role, id, services[id].incidentId, "assigned")
  \/ \E role \in Roles, incidentId \in NamedIds : MediaAdd(role, incidentId, "image")
  \/ \E role \in Roles, incidentId \in NamedIds :
       ReportsSend(role, incidentId, <<"party", "insurance">>)

SpecRoles == Init /\ [][RolesNext]_vars

\* the foreign key of the incidentId column of incidentParties, services,
\* incidentMedia, incidentHistory and reportSends: the Store accepts the insert
\* of a row when its incidentId is the id of an incident
ForeignKey(incidentId) == incidentId \in 1..Len(incidents)

\* the Store rejects the first insert of a call because of the foreign key: the
\* call fails and has written nothing
ForeignKeyRejects(proc, input) ==
  /\ ops < MaxOps
  /\ ops' = ops + 1
  /\ Answer(proc, input, "Foreign key constraint fails", 0)
  /\ UNCHANGED <<db, users, incidentMedia, statistics, run, mon, faults>>
  /\ UNCHANGED tables

\* the operations that insert rows referencing an incident, on a Store with the
\* foreign keys: incident creation, the additions of parties, services and
\* media, report sends, history appends, and automatic processing called directly
IntegrityNext ==
  \/ \E incidentType \in IncidentTypes : IncidentsCreate(incidentType)
  \/ \E role \in Roles, incidentId \in IdSpace :
       IF role # "user" /\ ~ForeignKey(incidentId)
       THEN ForeignKeyRejects("parties.add", [role |-> role, incidentId |-> incidentId])
       ELSE PartiesAdd(role, incidentId)
  \/ \E role \in Roles, incidentId \in IdSpace :
       IF role # "user" /\ ~ForeignKey(incidentId)
       THEN ForeignKeyRejects("services.create",
              [role |-> role, incidentId |-> incidentId, serviceType |-> "police"])
       ELSE ServicesCreate(role, incidentId, "police")
  \/ \E role \in Roles, incidentId \in IdSpace :
       IF role # "user" /\ ~ForeignKey(incidentId)
       THEN ForeignKeyRejects("media.add",
              [role |-> role, incidentId |-> incidentId, mediaType |-> "image"])
       ELSE MediaAdd(role, incidentId, "image")
  \/ \E incidentId \in IdSpace, recipients \in {<<>>, <<"party">>} :
       IF ~ForeignKey(incidentId)
       THEN ForeignKeyRejects("reports.send",
              [role |-> "operator", incidentId |-> incidentId, recipients |-> recipients])
       ELSE ReportsSend("operator", incidentId, recipients)
  \/ \E incidentId \in IdSpace :
       IF ~ForeignKey(incidentId)
       THEN ForeignKeyRejects("addIncidentHistory",
              [incidentId |-> incidentId, action |-> "Note added"])
       ELSE DbAddIncidentHistory(incidentId, "Note added")
  \/ \E incidentId \in IdSpace : ProcessIncidentAutomatically(incidentId)
  \/ GenerateSmartReport("direct")
  \/ RouteServicesAutomatically("direct")
  \/ SendAlertsToParties("direct")
  \/ UpdateIncidentStatus("direct")
  \/ SendSmartReportToParties("direct")

SpecIntegrity == Init /\ [][IntegrityNext]_vars

\* a Store that holds rows, written while a connection was configured
StoredRows ==
  [incidents       |-> <<newIncident("injury")>>,
   services        |-> <<[incidentId |-> 1, serviceType |-> "ambulance",
                          status |-> "pending"]>>,
   incidentHistory |-> <<[incidentId |-> 1, action |-> "Incident created",
                          details |-> "injury"]>>,
   incidentParties |-> <<[incidentId |-> 1, faultPercentage |-> "null"]>>,
   reportSends     |-> <<newReportSend(1, "party")>>,
   users           |-> <<[openId |-> "u1", role |-> "user", lastSignedIn |-> "t0"]>>,
   incidentMedia   |-> <<[incidentId |-> 1, mediaType |-> "image",
                          isSimulated |-> "true"]>>,
   statistics      |-> <<ZeroStatistics>>]

\* the backend started without DATABASE_URL: getDb() answers null for good; the
\* tables are empty or hold the rows above
InitUnavailable ==
  /\ db = "null"
  /\ \/ /\ incidents = <<>>
        /\ services = <<>>
        /\ incidentHistory = <<>>
        /\ incidentParties = <<>>
        /\ reportSends = <<>>
        /\ users = <<>>
        /\ incidentMedia = <<>>
        /\ statistics = <<>>
     \/ /\ incidents = StoredRows.incidents
        /\ services = StoredRows.services
        /\ incidentHistory = StoredRows.incidentHistory
        /\ incidentParties = StoredRows.incidentParties
        /\ reportSends = StoredRows.reportSends
        /\ users = StoredRows.users
        /\ incidentMedia = StoredRows.incidentMedia
        /\ statistics = StoredRows.statistics
  /\ run = [r \in Callers |-> IdleRun]
  /\ mon = IdleMon
  /\ response = NoResponse
  /\ ops = 0
  /\ faults = 0

\* every function of the Store, called on its own
StoreNext ==
  \/ \E openId \in OpenIds, role \in RoleArguments : DbUpsertUser(openId, role)
  \/ \E openId \in OpenIds : DbGetUserByOpenId(openId)
  \/ \E incidentType \in IncidentTypes : DbCreateIncident(incidentType)
  \/ \E incidentId \in IdSpace : DbGetIncidentById(incidentId)
  \/ \E limit \in {1, 50}, offset \in {0, 1} : DbGetAllIncidents(limit, offset)
  \/ \E incidentId \in IdSpace, status \in ManualStatuses :
       DbUpdateIncidentStatus(incidentId, status)
  \/ \E incidentId \in IdSpace : DbAddIncidentParty(incidentId)
  \/ \E incidentId \in IdSpace : DbGetIncidentParties(incidentId)
  \/ \E partyId \in IdSpace, faultPercentage \in {0, 100} :
       DbUpdatePartyFaultPercentage(partyId, faultPercentage)
  \/ \E incidentId \in IdSpace, serviceType \in RequestedTypes :
       DbCreateService(incidentId, serviceType)
  \/ \E incidentId \in IdSpace : DbGetIncidentServices(incidentId)
  \/ \E serviceId \in IdSpace, status \in {"assigned", "cancelled"} :
       DbUpdateServiceStatus(serviceId, status)
  \/ \E incidentId \in IdSpace, mediaType \in {"image", "video"},
        isSimulated \in SimulatedArguments :
       DbAddIncidentMedia(incidentId, mediaType, isSimulated)
  \/ \E incidentId \in IdSpace : DbGetIncidentMedia(incidentId)
  \/ \E incidentId \in IdSpace : DbAddIncidentHistory(incidentId, "Note added")
  \/ \E incidentId \in IdSpace : DbGetIncidentHistory(incidentId)
  \/ DbGetTodayStatistics
  \/ DbUpdateStatistics
  \/ \E incidentId \in IdSpace, recipientType \in DirectRecipients :
       DbCreateReportSend(incidentId, recipientType)
  \/ \E incidentId \in IdSpace : DbGetReportSends(incidentId)
  \/ \E reportSendId \in IdSpace, status \in ReportSendStatuses,
        failureReason \in FailureReasons :
       DbUpdateReportSendStatus(reportSendId, status, failureReason)

\* the Store of a backend without a connection
SpecUnavailable == InitUnavailable /\ [][StoreNext]_vars

\* the whole backend
Next ==
  \/ Engine
  \/ \E incidentType \in IncidentTypes : IncidentsCreate(incidentType)
  \/ \E role \in Roles, incidentId \in IdSpace : PartiesAdd(role, incidentId)
  \/ \E role \in Roles, incidentId \in IdSpace, recipients \in RecipientLists :
       ReportsSend(role, incidentId, recipients)
  \/ ServicesNext
  \/ \E role \in Roles, id \in IdSpace, status \in ManualStatuses :
       IncidentsUpdateStatus(role, id, status)
  \/ \E result \in LlmResults : AnalyzeImages(result)
  \/ StoreNext

Spec == Init /\ [][Next]_vars

\* the Store of a backend with its connection
SpecStore == Init /\ [][StoreNext]_vars

(* ------------------------------ properties ---------------------------- *)

\* the ids that resolve to an incident row
Resolves(incidentId) == incidentId \in 1..Len(incidents)

\* C1: processIncidentAutomatically called with an id that resolves to no incident
\* fails with "Incident not found" at its first read, and neither the call nor the
\* failing read writes any table: an activation that got past the read has an
\* incident, the step that starts an activation writes nothing, and the read of
\* a missing id ends the activation in the catch block with every table unchanged.
C1_NotFoundLeavesStore ==
  /\ [](\A r \in Callers :
          run[r].pc \notin {"idle", "generateSmartReport", "threw"}
            => Resolves(run[r].incidentId))
  /\ [][\A r \in Callers :
          /\ (run'[r] # run[r] /\ run'[r].pc = "generateSmartReport")
               => UNCHANGED tables
          /\ (run'[r] # run[r] /\ run[r].pc = "generateSmartReport"
                /\ ~Resolves(run[r].incidentId))
               => /\ run'[r].pc = "threw"
                  /\ run'[r].error = "Incident not found"
                  /\ UNCHANGED tables]_vars

\* C1 witness: a direct call with id 2 failed with "Incident not found" while the
\* Store holds one incident and the Service rows an earlier sweep routed for it
C1_Witness ==
  /\ run["direct"].pc = "threw"
  /\ run["direct"].error = "Incident not found"
  /\ run["direct"].incidentId = 2
  /\ Len(incidents) = 1
  /\ run["monitor"].pc = "returned"
  /\ Len(services) = Len(run["monitor"].created)
  /\ Len(services) > 0

\* C2: the sweep isolates per-item failures: it never ends by a throw, while it
\* runs it has invoked processIncidentAutomatically once for each loaded incident
\* up to the current one, and when it is done it has invoked it exactly once, in
\* order, for every incident it loaded, whichever of them failed.
C2_SweepIsolation ==
  /\ mon.pc # "threw"
  /\ \A i, j \in 1..Len(mon.pending) : i # j => mon.pending[i] # mon.pending[j]
  /\ mon.pc = "running" => mon.invoked = SubSeq(mon.pending, 1, mon.idx)
  /\ mon.pc = "done" => mon.invoked = mon.pending
  /\ \A i \in 1..Len(mon.errors) :
       \E j \in 1..Len(mon.invoked) : mon.invoked[j] = mon.errors[i]

\* C2 witness: a sweep over two pending incidents is done, the first one failed
\* and the second was still processed
C2_Witness ==
  /\ mon.pc = "done"
  /\ Len(mon.pending) = 2
  /\ mon.errors = <<mon.pending[1]>>
  /\ mon.invoked = mon.pending
  /\ run["monitor"].pc = "returned"
  /\ run["monitor"].incidentId = mon.pending[2]

\* C3 as stated: a successful run creates one row for the primary action (when not
\* none) plus one row for each recommended service label other than the primary
\* action's label (four rows for an injury incident)
C3_Original ==
  \A r \in Callers :
    run[r].pc = "returned" =>
      LET report == run[r].report
          recs   == report.recommendedServices
          others == {j \in 1..Len(recs) :
                       \/ report.action = "none"
                       \/ recs[j] # serviceMapping[report.action]}
      IN  Len(run[r].created) =
            (IF report.action = "none" THEN 0 ELSE 1) + Cardinality(others)

\* C3 amended: a successful run creates one pending Service row for the primary
\* action plus one for each recommended service that maps to a service type and
\* is not the primary action; the red-crescent label maps to no service type and
\* gets no row: injury -> ambulance, traffic_control, police; breakdown ->
\* tow_truck, traffic_control; traffic -> traffic_control.
C3_RoutedServices ==
  \A r \in Callers :
    run[r].pc = "returned" =>
      LET incidentType == incidents[run[r].incidentId].incidentType
          routed == CASE incidentType = "injury" ->
                           <<"ambulance", "traffic_control", "police">>
                      [] incidentType = "breakdown" -> <<"tow_truck", "traffic_control">>
                      [] incidentType = "traffic" -> <<"traffic_control">>
      IN  /\ run[r].created = routed
          /\ \A k \in 1..Len(routed) :
               \E i \in 1..Len(services) :
                 services[i] = [incidentId |-> run[r].incidentId,
                                serviceType |-> routed[k], status |-> "pending"]
          /\ Len(ServicesOf(run[r].incidentId)) >= Len(routed)

\* C3 witness: a run for an injury incident returned and the incident's Service
\* rows are exactly ambulance, traffic_control and police
C3_Witness ==
  /\ run["direct"].pc = "returned"
  /\ Resolves(run["direct"].incidentId)
  /\ incidents[run["direct"].incidentId].incidentType = "injury"
  /\ [i \in 1..Len(ServicesOf(run["direct"].incidentId)) |->
        ServicesOf(run["direct"].incidentId)[i].serviceType]
       = <<"ambulance", "traffic_control", "police">>

C6_NoRollback ==
  /\ [](\A r \in Callers : \A t \in ServiceTypes :
          Cardinality({k \in 1..Len(run[r].created) : run[r].created[k] = t})
            <= Cardinality({i \in 1..Len(services) :
                              /\ services[i].incidentId = run[r].incidentId
                              /\ services[i].serviceType = t}))
  /\ [][\A r \in Callers :
          (/\ run'[r].pc = "threw"
           /\ run[r].pc \in {"routeServicesAutomatically", "sendAlertsToParties",
                             "updateIncidentStatus", "sendSmartReportToParties"})
            => /\ run'[r].error = "Store write rejected"
               /\ run'[r].created = run[r].created
               /\ services' = services
               /\ incidents' = incidents]_vars

\* C6 witness: a direct run for a breakdown incident failed at the status update,
\* after both its Service rows were created: the rows are in the Store and the
\* incident is still pending
C6_Witness ==
  /\ run["direct"].pc = "threw"
  /\ run["direct"].error = "Store write rejected"
  /\ run["direct"].created = <<"tow_truck", "traffic_control">>
  /\ Len(ServicesOf(run["direct"].incidentId)) = 2
  /\ incidents[run["direct"].incidentId].status = "pending"

\* C7: after a successful run the incident is in_progress, and every incident that
\* automatic processing has set to in_progress already has the Service row of the
\* primary action of its type (the status is written only after the routing).
C7_StatusAfterRouting ==
  /\ \A r \in Callers :
       run[r].pc = "returned" => incidents[run[r].incidentId].status = "in_progress"
  /\ \A i \in 1..Len(incidents) :
       incidents[i].status = "in_progress" =>
         LET primary == CASE incidents[i].incidentType = "injury" -> "ambulance"
                          [] incidents[i].incidentType = "breakdown" -> "tow_truck"
                          [] incidents[i].incidentType = "traffic" -> "traffic_control"
         IN  \E k \in 1..Len(services) :
               services[k].incidentId = i /\ services[k].serviceType = primary

\* C7 witness: the sweep's run returned, its incident is in_progress and the first
\* Service row of the incident is the one of the run's primary action
C7_Witness ==
  /\ run["monitor"].pc = "returned"
  /\ incidents[run["monitor"].incidentId].status = "in_progress"
  /\ ServicesOf(run["monitor"].incidentId)[1].serviceType = run["monitor"].report.action

\* the step in which activation r's status update is written
StatusWrite(r) ==
  /\ run[r].pc = "updateIncidentStatus"
  /\ run'[r].pc \notin {"updateIncidentStatus", "threw"}

\* C8 as stated: at every status write of automatic processing the incident is
\* pending
C8_Original ==
  [][\A r \in Callers :
       StatusWrite(r) => incidents[run[r].incidentId].status = "pending"]_vars

\* C8 amended: every status change made by automatic processing writes
\* in_progress to the processed incident and touches no other incident, whatever
\* the incident's status at the moment of the write; no other step of automatic
\* processing changes a status; and the sweep starts processing only for
\* incidents that are pending when it loads them.
C8_WritesInProgress ==
  /\ [][\A r \in Callers :
          StatusWrite(r) =>
            incidents' = [i \in 1..Len(incidents) |->
                            IF i = run[r].incidentId
                            THEN [incidentType |-> incidents[i].incidentType,
                                  status |-> "in_progress"]
                            ELSE incidents[i]]]_vars
  /\ [][((\E r \in Callers : run'[r] # run[r]) /\ (\A r \in Callers : ~StatusWrite(r)))
          => incidents' = incidents]_vars
  /\ [][(mon.pc # "running" /\ mon'.pc = "running") =>
          \A j \in 1..Len(mon'.pending) :
            incidents[mon'.pending[j]].status = "pending"]_vars

\* C8 witness: the direct run and the sweep's run both wrote the status of the
\* same incident and returned: the later write found it in_progress
C8_Witness ==
  /\ run["direct"].pc = "returned"
  /\ run["monitor"].pc = "returned"
  /\ run["direct"].incidentId = run["monitor"].incidentId
  /\ incidents[run["direct"].incidentId].status = "in_progress"
  /\ mon.pc = "done"

\* C9: two runs for the same incident are not kept apart and nothing removes or
\* merges their rows: whenever both have completed, the incident has at least two
\* pending Service rows of each service type a run routes.
C9_DuplicateRows ==
  (/\ run["direct"].pc = "returned"
   /\ run["monitor"].pc = "returned"
   /\ run["direct"].incidentId = run["monitor"].incidentId)
    => \A k \in 1..Len(run["direct"].created) :
         Cardinality({i \in 1..Len(services) :
                        services[i] = [incidentId |-> run["direct"].incidentId,
                                       serviceType |-> run["direct"].created[k],
                                       status |-> "pending"]}) >= 2

\* C9 witness: both runs completed for the same incident after their inserts
\* interleaved: the first two Service rows of the Store are two pending rows of
\* the same type for the incident, one from each run
C9_Witness ==
  /\ run["direct"].pc = "returned"
  /\ run["monitor"].pc = "returned"
  /\ run["direct"].incidentId = run["monitor"].incidentId
  /\ Len(services) = 4
  /\ services[1] = services[2]
  /\ services[3] = services[4]
  /\ services[1].status = "pending"
  /\ services[1].incidentId = run["direct"].incidentId

\* C10: a reports.send call that answers, for a list of n recipients (n >= 0),
\* has appended exactly n ReportSend rows, each pending, for the incident of the
\* call and of the recipients' types in order, has appended exactly one
\* "Report sent" HistoryEntry for the incident naming n, has left the older rows
\* as they were, and answers the count n.
C10_SendCreatesRows ==
  [][(/\ ops' = ops + 1
      /\ response'.request = ops'
      /\ response'.proc = "reports.send"
      /\ response'.error = "")
       => LET incidentId == response'.input.incidentId
              recipients == response'.input.recipients
              n          == Len(recipients)
          IN  /\ Len(reportSends') = Len(reportSends) + n
              /\ SubSeq(reportSends', 1, Len(reportSends)) = reportSends
              /\ \A i \in 1..n :
                   /\ reportSends'[Len(reportSends) + i].incidentId = incidentId
                   /\ reportSends'[Len(reportSends) + i].recipientType = recipients[i]
                   /\ reportSends'[Len(reportSends) + i].status = "pending"
              /\ Len(incidentHistory') = Len(incidentHistory) + 1
              /\ SubSeq(incidentHistory', 1, Len(incidentHistory)) = incidentHistory
              /\ incidentHistory'[Len(incidentHistory')].incidentId = incidentId
              /\ incidentHistory'[Len(incidentHistory')].action = "Report sent"
              /\ incidentHistory'[Len(incidentHistory')].details =
                   "Report sent to " \o ToString(n) \o " recipients"
              /\ response'.value = n]_vars

\* C10 witness: a reports.send call with two recipients of the same type answered
\* count 2 after an earlier call with no recipient: the Store holds two pending
\* rows and a "Report sent" entry for each call
C10_Witness ==
  /\ response.proc = "reports.send"
  /\ response.error = ""
  /\ response.input.recipients = <<"party", "party">>
  /\ response.value = 2
  /\ Len(reportSends) = 2
  /\ \A i \in 1..2 : reportSends[i].status = "pending"
  /\ Len(incidentHistory) >= 2
  /\ incidentHistory[Len(incidentHistory)].details = "Report sent to 2 recipients"
  /\ incidentHistory[Len(incidentHistory) - 1].details = "Report sent to 0 recipients"


\* the step is a call of updateReportSendStatus served with a connection for a
\* report send that exists
UpdateStep(i) ==
  /\ response'.request = ops + 1
  /\ response'.proc = "updateReportSendStatus"
  /\ response'.error = ""
  /\ response'.input.reportSendId = i
  /\ i \in 1..Len(reportSends)

\* C11: whatever updateReportSendStatus calls were made, every ReportSend row
\* whose status is sent has a sent timestamp that is not null, and every row
\* whose status is read has a read timestamp that is not null.
C11_StampedRows ==
  \A i \in 1..Len(reportSends) :
    /\ reportSends[i].status = "sent" => reportSends[i].sentAt # "null"
    /\ reportSends[i].status = "read" => reportSends[i].readAt # "null"

\* C11 witness: a row was set to sent and later to read, and carries both stamps
C11_Witness ==
  \E i \in 1..Len(reportSends) :
    /\ reportSends[i].status = "read"
    /\ reportSends[i].readAt # "null"
    /\ reportSends[i].sentAt # "null"
    /\ reportSends[i].readAt # reportSends[i].sentAt


\* C12 (as claimed): every ReportSend row whose status is failed has a stored
\* failure reason that is not empty.
C12_Original ==
  \A i \in 1..Len(reportSends) :
    reportSends[i].status = "failed" => reportSends[i].failureReason \notin {"null", ""}

\* C12 (amended): a call of updateReportSendStatus with status failed always sets
\* the row to failed; it stores the reason when a non-empty one is given, and
\* leaves the stored reason as it was (null, or the reason of an earlier failure)
\* when the reason is left out or empty.  The stored reason is never the empty text.
C12_ReasonStoredWhenGiven ==
  /\ [](\A i \in 1..Len(reportSends) : reportSends[i].failureReason # "")
  /\ [][\A i \in IdSpace :
          (UpdateStep(i) /\ response'.input.status = "failed") =>
            /\ reportSends'[i].status = "failed"
            /\ reportSends'[i].failureReason =
                 IF Truthy(response'.input.failureReason)
                 THEN response'.input.failureReason
                 ELSE reportSends[i].failureReason]_vars

\* C12 witness: a failed transition without a reason was accepted and left a
\* failed row whose stored reason is null
C12_Witness ==
  /\ response.proc = "updateReportSendStatus"
  /\ response.error = ""
  /\ response.input.status = "failed"
  /\ ~Truthy(response.input.failureReason)
  /\ response.input.reportSendId \in 1..Len(reportSends)
  /\ reportSends[response.input.reportSendId].status = "failed"
  /\ reportSends[response.input.reportSendId].failureReason = "null"

\* C13 (as claimed): once a ReportSend row is sent, failed or read, no step sets
\* its status back to pending.
C13_Original ==
  [][\A i \in 1..Len(reportSends) :
       reportSends[i].status \in {"sent", "failed", "read"} =>
         reportSends'[i].status # "pending"]_vars

\* C13 (amended): a call of updateReportSendStatus sets the row to the status it
\* is given whatever the row's current status; given pending, it sets a sent,
\* failed or read row back to pending and leaves its timestamps and its failure
\* reason as they were.  No other step changes an existing row.
C13_StatusSetAsGiven ==
  [][\A i \in 1..Len(reportSends) :
       IF UpdateStep(i)
       THEN /\ reportSends'[i].status = response'.input.status
            /\ response'.input.status = "pending" =>
                 reportSends'[i] = [reportSends[i] EXCEPT !.status = "pending"]
       ELSE reportSends'[i] = reportSends[i]]_vars

\* C13 witness: a row that was sent is pending again, its sent timestamp kept
C13_Witness ==
  /\ response.proc = "updateReportSendStatus"
  /\ response.input.status = "pending"
  /\ response.input.reportSendId \in 1..Len(reportSends)
  /\ reportSends[response.input.reportSendId].status = "pending"
  /\ reportSends[response.input.reportSendId].sentAt # "null"


\* the place of a service status in the order pending, assigned, en_route,
\* arrived, completed
ServiceRank(status) ==
  CASE status = "pending" -> 1
    [] status = "assigned" -> 2
    [] status = "en_route" -> 3
    [] status = "arrived" -> 4
    [] status = "completed" -> 5
    [] OTHER -> 0

\* the step is a call of services.updateStatus that was served for service i
ServiceUpdateStep(i) ==
  /\ response'.request = ops + 1
  /\ response'.proc = "services.updateStatus"
  /\ response'.error = ""
  /\ response'.input.id = i

\* C14 (as claimed): a Service row's status only moves forward along the order
\* pending, assigned, en_route, arrived, completed, except for cancellation: no
\* step moves a row that is not cancelled to an earlier status of the order.
C14_Original ==
  [][\A i \in 1..Len(services) :
       (services[i].status # "cancelled" /\ services'[i].status # "cancelled") =>
         ServiceRank(services'[i].status) >= ServiceRank(services[i].status)]_vars

\* C14 (amended): services.updateStatus called by an operator or admin sets the
\* row to the status it is given, whatever the row's current status: an earlier
\* status of the order, or any status for a cancelled row, is written like any
\* other.  A call by role user fails and no other step changes an existing row.
C14_StatusSetAsGiven ==
  [][\A i \in 1..Len(services) :
       IF ServiceUpdateStep(i)
       THEN /\ response'.input.role # "user"
            /\ services'[i] = [services[i] EXCEPT !.status = response'.input.status]
       ELSE services'[i] = services[i]]_vars

\* C14 witness: the one service of the Store was set to completed and then, by
\* the call just answered, back to pending
C14_Witness ==
  /\ response.proc = "services.updateStatus"
  /\ response.error = ""
  /\ response.input.status = "pending"
  /\ Len(services) = 1
  /\ services[1].status = "pending"
  /\ \E k \in 1..Len(incidentHistory) :
       incidentHistory[k].details = "Service status changed to completed"


\* the step is a call of incidents.updateStatus
StatusUpdateCall ==
  /\ response'.request = ops + 1
  /\ response'.proc = "incidents.updateStatus"

\* C15: an incident's status is changed only by automatic processing or by
\* incidents.updateStatus called by an operator or admin: a call by role user
\* fails with the Unauthorized error and leaves every incident status and the
\* history as they were, and every step that changes an incident's status is the
\* engine's status write for that incident or a served updateStatus call for it
\* by a role other than user.
C15_StatusChangedByRoleOnly ==
  [][/\ (StatusUpdateCall /\ response'.input.role = "user") =>
          /\ response'.error =
               "Unauthorized: Only operators and admins can update incident status"
          /\ UNCHANGED <<incidents, incidentHistory>>
     /\ \A i \in 1..Len(incidents) :
          incidents'[i].status # incidents[i].status =>
            \/ \E r \in Callers : StatusWrite(r) /\ run[r].incidentId = i
            \/ /\ StatusUpdateCall
               /\ response'.error = ""
               /\ response'.input.role \in {"operator", "admin"}
               /\ response'.input.id = i
               /\ incidents'[i].status = response'.input.status]_vars

\* C15 witness: a user asked for a status the incident does not have and was
\* refused, the incident still in its earlier status
C15_Witness ==
  /\ response.proc = "incidents.updateStatus"
  /\ response.input.role = "user"
  /\ response.error = "Unauthorized: Only operators and admins can update incident status"
  /\ response.input.id \in 1..Len(incidents)
  /\ incidents[response.input.id].status # response.input.status


\* the routing policy: the action of the type, then the priority and the
\* response time for a fault percentage up to 60, from 61 to 80, and above 80
RoutingPolicy ==
  [injury    |-> [action |-> "ambulance",
                  priority |-> <<"immediate", "urgent", "immediate">>,
                  estimatedResponseTime |-> <<3, 3, 2>>],
   breakdown |-> [action |-> "tow_truck",
                  priority |-> <<"urgent", "urgent", "immediate">>,
                  estimatedResponseTime |-> <<10, 10, 8>>],
   traffic   |-> [action |-> "traffic_control",
                  priority |-> <<"normal", "urgent", "immediate">>,
                  estimatedResponseTime |-> <<5, 5, 3>>]]

\* C16: for every incident type and every fault percentage from 0 to 100 the
\* decision of makeAIDecision is the one of the policy: the action of the type
\* (a type other than injury and breakdown decides as traffic), priority
\* immediate and the response time shortened by 2 but not below 2 when the fault
\* is above 80, priority urgent and the response time kept when it is above 60,
\* the defaults of the type otherwise; the response time is never below 2.
C16_DecisionIsPolicy ==
  response.proc = "makeAIDecision" =>
    LET row  == IF response.input.incidentType \in {"injury", "breakdown"}
                THEN RoutingPolicy[response.input.incidentType]
                ELSE RoutingPolicy["traffic"]
        band == IF response.input.faultPercentage > 80 THEN 3
                ELSE IF response.input.faultPercentage > 60 THEN 2 ELSE 1
    IN  /\ response.value.action = row.action
        /\ response.value.priority = row.priority[band]
        /\ response.value.estimatedResponseTime = row.estimatedResponseTime[band]
        /\ response.value.estimatedResponseTime >= 2

\* C16 witness: an injury with a fault above 80 was decided: the response time
\* is held at the floor of 2
C16_Witness ==
  /\ response.proc = "makeAIDecision"
  /\ response.input.incidentType = "injury"
  /\ response.input.faultPercentage > 80
  /\ response.value.priority = "immediate"
  /\ response.value.estimatedResponseTime = 2

\* C17: the fault percentage calculateFaultPercentage returns is an integer from
\* 0 to 100, for every incident type, known or not, every estimated speed and
\* every random draw.
C17_FaultInRange ==
  response.proc = "calculateFaultPercentage" => response.value \in 0..100

\* C17 witness: the largest percentage there is, an injury at the top of its
\* random range with the speed adjustment added
C17_Witness ==
  /\ response.proc = "calculateFaultPercentage"
  /\ response.input.incidentType = "injury"
  /\ SpeedAbove80(response.input.videoAnalysis)
  /\ response.value = 95


\* the fault percentages calculateFaultPercentage can return for a type, with the
\* video analysis simulated for it
PossibleFaults(incidentType) ==
  {calculateFaultPercentage(incidentType, simulateVideoAnalysis(incidentType), rnd) :
     rnd \in 0..(RandomSteps - 1)}

\* C18 (as claimed): for a type other than injury, breakdown and traffic, what is
\* computed is what is computed for traffic: the same possible fault percentages,
\* for each draw the same severity and decision, the same analysis entry and the
\* same recommended services.
C18_Original ==
  (response.proc = "generateSmartReport"
     /\ response.input.incidentType \notin {"injury", "breakdown", "traffic"}) =>
    LET asTraffic == SmartReport(0, [incidentType |-> "traffic"], response.input.rnd)
    IN  /\ PossibleFaults(response.input.incidentType) = PossibleFaults("traffic")
        /\ response.value.severity = asTraffic.severity
        /\ response.value.aiDecision = asTraffic.aiDecision
        /\ response.value.videoAnalysis = asTraffic.videoAnalysis
        /\ response.value.recommendedServices = asTraffic.recommendedServices

\* C18 (amended): for a type other than injury, breakdown and traffic the fault
\* percentage is 50 for every draw (for traffic it ranges from 45 to 75), so
\* the severity is always medium and the decision always traffic_control with
\* priority normal and response time 5, which for traffic is only the case up
\* to a fault of 60.  The analysis entry and the recommended services are those
\* of traffic, unless the type is a property name inherited from
\* Object.prototype: the lookups then return the inherited member.
C18_UnknownTypeFixed ==
  (response.proc = "generateSmartReport"
     /\ response.input.incidentType \notin {"injury", "breakdown", "traffic"}) =>
    /\ response.value.faultPercentage = 50
    /\ response.value.severity = "medium"
    /\ response.value.aiDecision =
         [action |-> "traffic_control", priority |-> "normal", estimatedResponseTime |-> 5]
    /\ IF response.input.incidentType \in InheritedKeys
       THEN /\ response.value.videoAnalysis = Inherited(response.input.incidentType)
            /\ response.value.recommendedServices = Inherited(response.input.incidentType)
       ELSE /\ response.value.videoAnalysis = analyses["traffic"]
            /\ response.value.recommendedServices = determineServices("traffic")

\* C18 witness: a type the switch does not name got fault 50, severity medium
\* and priority normal on a draw for which traffic gets a fault above 70,
\* severity high and priority urgent
C18_Witness ==
  /\ response.proc = "generateSmartReport"
  /\ response.input.incidentType = "other"
  /\ response.value.faultPercentage = 50
  /\ response.value.videoAnalysis = analyses["traffic"]
  /\ LET asTraffic == SmartReport(0, [incidentType |-> "traffic"], response.input.rnd)
     IN  /\ asTraffic.faultPercentage > 70
         /\ asTraffic.severity = "high"
         /\ asTraffic.aiDecision.priority = "urgent"


\* the Store functions that write and throw without a connection
ThrowingWrites ==
  {"createIncident", "updateIncidentStatus", "addIncidentParty",
   "updatePartyFaultPercentage", "createService", "updateServiceStatus",
   "addIncidentMedia", "addIncidentHistory", "updateStatistics", "createReportSend",
   "updateReportSendStatus"}

\* the Store functions that read one row, and those that read a collection
RowReads == {"getIncidentById", "getTodayStatistics"}

CollectionReads ==
  {"getAllIncidents", "getIncidentParties", "getIncidentServices", "getIncidentMedia",
   "getIncidentHistory", "getReportSends"}

\* C19 (as claimed): without a Store connection every Store write, upsertUser
\* among them, fails with an error and never returns normally.
C19_Original ==
  (db = "null" /\ response.proc \in ThrowingWrites \cup {"upsertUser"}) =>
    response.error # ""

\* C19 (amended): without a Store connection no call changes a table; every read
\* returns normally, null for a row (undefined from getUserByOpenId) and the
\* empty list for a collection; every write throws "Database not available",
\* except upsertUser, which throws only for a missing openId and otherwise
\* returns normally without writing.
C19_UnavailableStore ==
  /\ [][db = "null" => UNCHANGED store]_vars
  /\ [](db = "null" =>
          /\ response.proc \in ThrowingWrites =>
               response.error = "Database not available"
          /\ response.proc = "upsertUser" =>
               response.error = IF response.input.openId = ""
                                THEN "User openId is required for upsert" ELSE ""
          /\ response.proc \in RowReads =>
               response.error = "" /\ response.value = "null"
          /\ response.proc = "getUserByOpenId" =>
               response.error = "" /\ response.value = "undefined"
          /\ response.proc \in CollectionReads =>
               response.error = "" /\ response.value = <<>>)

\* C19 witness: without a connection and with rows in the tables, upsertUser was
\* called for a user and returned normally, the users table as it was
C19_Witness ==
  /\ db = "null"
  /\ response.proc = "upsertUser"
  /\ response.input.openId = OwnerOpenId
  /\ response.error = ""
  /\ users = StoredRows.users


\* the step is a call of incidents.analyzeImages
AnalyzeImagesCall ==
  /\ response'.request = ops + 1
  /\ response'.proc = "incidents.analyzeImages"

\* C20: incidents.analyzeImages never hands an error to its caller and writes no
\* table, whatever the collaborator does; when the collaborator's call fails or
\* the content it answers is a text that cannot be parsed, the answer is
\* {success: false, extractedData: null}.
C20_AnalysisNeverThrows ==
  [][AnalyzeImagesCall =>
       /\ response'.error = ""
       /\ UNCHANGED store
       /\ (\/ response'.input.call # "returns"
           \/ /\ response'.input.contentType = "string"
              /\ response'.input.content \notin {"json_object", "json_null"}) =>
            response'.value = [success |-> FALSE, extractedData |-> "null"]]_vars

\* C20 witness: the collaborator answered a text that is not JSON and the
\* procedure answered without success
C20_Witness ==
  /\ response.proc = "incidents.analyzeImages"
  /\ response.input.call = "returns"
  /\ response.input.contentType = "string"
  /\ response.input.content = "not_json"
  /\ response.error = ""
  /\ response.value.success = FALSE

\* the place of a priority in the order normal, urgent, immediate
PriorityRank(priority) ==
  CASE priority = "normal" -> 1
    [] priority = "urgent" -> 2
    [] priority = "immediate" -> 3

\* the priority the switch of makeAIDecision gives a type before the overlay
DefaultPriority(incidentType) ==
  CASE incidentType = "injury" -> "immediate"
    [] incidentType = "breakdown" -> "urgent"
    [] OTHER -> "normal"

\* C22: the fault-based overlay of makeAIDecision only escalates: for every
\* incident type and fault percentage the priority decided is never less urgent
\* than the default priority of the type (normal < urgent < immediate), also in
\* the report generated for an injury incident.
C22_PureEscalation ==
  /\ response.proc = "makeAIDecision" =>
       PriorityRank(response.value.priority) >=
         PriorityRank(DefaultPriority(response.input.incidentType))
  /\ response.proc = "generateSmartReport" =>
       PriorityRank(response.value.aiDecision.priority) >=
         PriorityRank(DefaultPriority(response.input.incidentType))

\* C26: sendSmartAlerts logs the alert of the closest threshold at or above the
\* distance: the arrival line for distance 0, the 1 km line for a distance in
\* (0, 1], the 2 km line in (1, 2], the 5 km line in (2, 5], and nothing for a
\* distance above 5.
C26_ClosestThreshold ==
  response.proc = "sendSmartAlerts" =>
    LET d == response.input.distanceKm
    IN  response.value =
          IF d[1] = 0 THEN "service has arrived"
          ELSE IF d[1] <= d[2] THEN "service is 1 km away"
          ELSE IF d[1] <= 2 * d[2] THEN "service is 2 km away"
          ELSE IF d[1] <= 5 * d[2] THEN "service is 5 km away"
          ELSE ""

\* the incident has a history row of its creation
HasCreationEntry(incidentId) ==
  \E i \in 1..Len(incidentHistory) :
    /\ incidentHistory[i].incidentId = incidentId
    /\ incidentHistory[i].action = "Incident created"

\* C25 as stated: in every reachable state, also after a Store failure during
\* incidents.create, every incident of the Store has at least one history row
\* with its own id and the action "Incident created".
C25_Original == \A incidentId \in 1..Len(incidents) : HasCreationEntry(incidentId)

\* the step is a call of incidents.create
IncidentsCreateCall ==
  /\ response'.request = ops + 1
  /\ response'.proc = "incidents.create"

\* C25 amended: a call of incidents.create that returns normally has inserted one
\* incident and the "Incident created" history row with that incident's id, the
\* id it answers; a call that fails has inserted no history row, and it has
\* inserted the incident exactly when it was the history write that failed, so
\* that incident has no creation row.  No step removes a history row or an
\* incident.
C25_CreatedWithEntryUnlessRejected ==
  /\ [][IncidentsCreateCall =>
          IF response'.error = ""
          THEN /\ Len(incidents') = Len(incidents) + 1
               /\ response'.value = Len(incidents')
               /\ incidentHistory' =
                    Append(incidentHistory,
                           [incidentId |-> Len(incidents'), action |-> "Incident created",
                            details |-> response'.input.incidentType])
          ELSE /\ incidentHistory' = incidentHistory
               /\ Len(incidents') \in {Len(incidents), Len(incidents) + 1}
               /\ Len(incidents') = Len(incidents) + 1 =>
                    \A i \in 1..Len(incidentHistory') :
                      ~(/\ incidentHistory'[i].incidentId = Len(incidents')
                        /\ incidentHistory'[i].action = "Incident created")]_vars
  /\ [][/\ Len(incidents') >= Len(incidents)
        /\ Len(incidentHistory') >= Len(incidentHistory)
        /\ SubSeq(incidentHistory', 1, Len(incidentHistory)) = incidentHistory]_vars

\* C25 witness: incidents.create failed at its history write and the incident it
\* inserted is in the Store without a creation row
C25_Witness ==
  /\ response.proc = "incidents.create"
  /\ response.error = "Store write rejected"
  /\ Len(incidents) > 0
  /\ ~HasCreationEntry(Len(incidents))


\* the Service rows of a type an incident has
ServiceRows(incidentId, serviceType) ==
  {i \in 1..Len(services) :
     services[i].incidentId = incidentId /\ services[i].serviceType = serviceType}

\* C23 as stated: when the sweeps of the monitor run one after the other, any
\* number of them, also sweeps in which a step of an activation fails, create at
\* most one Service row of each service type per incident.
C23_Original ==
  \A incidentId \in 1..Len(incidents), serviceType \in ServiceTypes :
    Cardinality(ServiceRows(incidentId, serviceType)) <= 1

\* C23 amended: when the sweeps run one after the other and no step has failed,
\* an incident has at most one Service row of each type, and none is added once
\* its status is in_progress; an activation that fails leaves the incident
\* pending with the rows it inserted, and the next sweep inserts them again, so
\* an incident has at most one row of a type more than steps have failed.
C23_OneRowPerTypeAndFailure ==
  /\ [](\A incidentId \in 1..Len(incidents), serviceType \in ServiceTypes :
          Cardinality(ServiceRows(incidentId, serviceType)) <= 1 + faults)
  /\ [][\A incidentId \in 1..Len(incidents) :
          /\ incidents[incidentId].status = "in_progress"
          /\ ~(run["monitor"].incidentId = incidentId /\ ~Finished("monitor"))
          => \A serviceType \in ServiceTypes :
               ServiceRows(incidentId, serviceType)' = ServiceRows(incidentId, serviceType)]_vars

\* C23 witness: an activation of the first sweep failed after it had inserted a
\* row, and the second sweep has inserted a second row of the same type for the
\* same incident
C23_Witness ==
  /\ faults = 1
  /\ mon.pc \in {"running", "done"}
  /\ \E incidentId \in 1..Len(incidents), serviceType \in ServiceTypes :
       Cardinality(ServiceRows(incidentId, serviceType)) = 2


\* the procedures that begin with the check of ctx.user.role
RoleCheckedProcedures ==
  {"incidents.updateStatus", "parties.add", "parties.updateFaultPercentage",
   "services.create", "services.updateStatus", "media.add"}

\* the step is a call of one of the procedures by a caller whose role is user
UserCall(procedures) ==
  /\ response'.request = ops + 1
  /\ response'.proc \in procedures
  /\ response'.input.role = "user"

\* C24 as stated: each of incidents.updateStatus, parties.add,
\* parties.updateFaultPercentage, services.create, services.updateStatus,
\* media.add and reports.send rejects a caller whose role is user, and the
\* rejected call writes nothing to the Store.
C24_Original ==
  [][UserCall(RoleCheckedProcedures \cup {"reports.send"}) =>
       /\ response'.error # ""
       /\ UNCHANGED store]_vars

\* C24 amended: incidents.updateStatus, parties.add,
\* parties.updateFaultPercentage, services.create, services.updateStatus and
\* media.add reject a caller whose role is user with an Unauthorized error and
\* the rejected call writes nothing to the Store; reports.send reads no role: for
\* a caller whose role is user it is never Unauthorized and, unless the Store
\* fails, it creates one ReportSend row per recipient and the "Report sent"
\* history row.
C24_UserRejectedExceptReportsSend ==
  /\ [][UserCall(RoleCheckedProcedures) =>
          /\ response'.error \in
               {"Unauthorized",
                "Unauthorized: Only operators and admins can update incident status"}
          /\ UNCHANGED store]_vars
  /\ [][UserCall({"reports.send"}) =>
          /\ response'.error \in {"", "Store write rejected"}
          /\ response'.error = "" =>
               /\ reportSends' =
                    createReportSends(response'.input.incidentId,
                                      response'.input.recipients,
                                      Len(response'.input.recipients))
               /\ Len(incidentHistory') = Len(incidentHistory) + 1
               /\ incidentHistory'[Len(incidentHistory')].action = "Report sent"]_vars

\* C24 witness: reports.send called by a caller whose role is user has returned
\* normally and its ReportSend rows are in the Store
C24_Witness ==
  /\ response.proc = "reports.send"
  /\ response.input.role = "user"
  /\ response.error = ""
  /\ response.value > 0
  /\ Len(reportSends) >= response.value


\* the incidentId of every row of the tables that reference an incident
ReferencedIds ==
  {incidentParties[i].incidentId : i \in 1..Len(incidentParties)}
    \cup {services[i].incidentId : i \in 1..Len(services)}
    \cup {incidentMedia[i].incidentId : i \in 1..Len(incidentMedia)}
    \cup {incidentHistory[i].incidentId : i \in 1..Len(incidentHistory)}
    \cup {reportSends[i].incidentId : i \in 1..Len(reportSends)}

=============================================================================
